---- MODULE Spec2Model ----
(***************************************************************************)
(* Model of packages/inspectable-r3f/src/Inspectable.tsx: the Provenance   *)
(* Registry, the Mesh-Source Resolver (associateMeshWithCanvas), the       *)
(* context-menu / modal session handlers and the Live Sync Controller      *)
(* (ModalContent effect, updateTexture, MutationObserver).                 *)
(*                                                                         *)
(* Conventions.  A texture object is identified with the bitmap it wraps   *)
(* (map.source.data); a material slot i of the model is materials[i-1] of  *)
(* the code.  "none" stands for undefined / null, 0 for an absent or falsy *)
(* number, FALSE for an undefined boolean.                                 *)
(***************************************************************************)
EXTENDS Integers, Sequences, FiniteSets, TLC

None == "none"

\* ------------------------------------------------------------------ bounds
\* Live-sync captures (updateTexture calls) started in one behaviour.
MaxCaptures == 2
\* Calls of the exported html2canvas wrapper in one behaviour.
MaxWrapperCalls == 1
\* Drawing-API calls and module evaluations in one behaviour.
MaxDrawCalls == 4

\* ---------------------------------------------------------------- universe
Meshes == {"meshA", "meshB"}
\* HTML source elements (capture targets and manual-override containers).
Divs == {"d1", "d2", "d3"}
\* HTMLCanvasElement bitmaps that exist before any live-sync capture.
Canvases0 == {"c1", "c2"}
\* The canvas returned by the k-th live-sync capture.
FreshCanvas(k) == "n" \o ToString(k)
FreshCanvases == {FreshCanvas(k) : k \in 1..MaxCaptures}
Canvases == Canvases0 \cup FreshCanvases
\* Other DOM-displayable texture sources (HTMLImageElement, HTMLVideoElement).
Media == {"img"}
\* Texture data that is not a DOM element (ImageBitmap, typed array).
DataBitmaps == {"bmp"}
Bitmaps == Canvases \cup Media \cup DataBitmaps
\* canvas.__inspectable_ghost of canvas c.
GhostOf(c) == "ghost:" \o c
GhostNodes == {GhostOf(c) : c \in Canvases0}
\* Every DOM node that can be relocated into the modal.
Nodes == Divs \cup Canvases \cup Media \cup GhostNodes

IsCanvas(b) == b \in Canvases
IsHTMLElement(b) == b \in Canvases \cup Media

VARIABLES
    material,      \* mesh -> sequence of [map, needsUpdate, inspectableContainer]
    meshUserData,  \* mesh -> mesh.userData.inspectableContainer
    heap,          \* the CaptureInfo objects held by containerRegistry
    registry,      \* containerRegistry: canvas -> index into heap, 0 if absent
    ghost,         \* canvases that own a __inspectable_ghost
    dom,           \* node -> [parent, position, left] (parentNode, inline style)
    menu,          \* the context menu: its onInspect closure's captureInfo
    modal,         \* the mounted ModalContent and its effect's closure
    observers,     \* connected MutationObservers
    captures,      \* updateTexture calls awaiting originalHtml2canvas
    ncap,          \* live-sync captures started so far
    wrappers,      \* html2canvas wrapper calls awaiting originalHtml2canvas
    nwrap          \* wrapper calls started so far

VARIABLES
    patched,       \* window.__r3f_inspectable_patched
    wraps,         \* wrapper layers installed on CanvasRenderingContext2D.prototype
    tracked,       \* canvas -> [has, matrix, stack]: __inspectable_matrix / _stack
    layer,         \* canvas -> the children of its ghost element, in order
    context,       \* canvas -> [ctm, stack]: the real 2D context's transform state
    log,           \* the calls made to the drawing API and what became of them
    config,        \* what the application asked for: the toggle, the build mode
    escaped        \* errors the library let through to the application

\* The state of the drawing-API instrumentation.
drawVars == <<patched, wraps, tracked, layer, context, log, config>>

vars == <<material, meshUserData, heap, registry, ghost, dom, menu, modal,
          observers, captures, ncap, wrappers, nwrap, drawVars, escaped>>

\* ------------------------------------------------------------ CaptureInfo
\* interface CaptureInfo; ref # 0 marks a reference to the registry's object
\* heap[ref] (whose fields are then read through Deref), ref = 0 an object
\* literal built by the resolver.
\* backdrop?: string, when absent.
NoBackdrop == [has |-> FALSE, pixels |-> <<>>]

Blank ==
    [ref |-> 0, element |-> None, width |-> 0, height |-> 0, scale |-> 0,
     mesh |-> None, backdrop |-> NoBackdrop, isRawSource |-> FALSE,
     wasConnected |-> FALSE, textureSourceCanvas |-> None, ghostContainer |-> None]

NoInfo == Blank

RefTo(i) == [Blank EXCEPT !.ref = i]

Deref(ci) == IF ci.ref # 0 THEN heap[ci.ref] ELSE ci

\* a || b on numbers
OrNum(a, b) == IF a # 0 THEN a ELSE b
\* a || b on strings
OrStr(a, b) == IF a # "" THEN a ELSE b

\* ------------------------------------------------------------------- DOM
\* dom[n].parent places node n: "body" (child of document.body), "host"
\* (child of another element of the document), "content" (child of the
\* mounted modal's content div), or None: outside the document (no parent,
\* or inside a subtree that was removed from the document).
IsConnected(d, e) == d[e].parent \in {"body", "host", "content"}

\* element.offsetWidth / offsetHeight: the layout box, 0 without one.
OffsetWidth(e) == IF IsConnected(dom, e) THEN 300 ELSE 0
OffsetHeight(e) == IF IsConnected(dom, e) THEN 200 ELSE 0

\* canvas.width / canvas.height and the raw-source fallbacks of pass 2.
BitmapWidth(b) == IF b \in Media THEN 64 ELSE 128
BitmapHeight(b) == IF b \in Media THEN 48 ELSE IF b = "c1" THEN 100 ELSE 128


\* ------------------------------------------------------------- resolver
\* A search that ignores the materialIndex of the event.
SearchMaterialsAll(mesh, idx) == material[mesh]

\* searchMaterials: the slot hit by the pick when the event names one that
\* exists (idx = 0: the event carries no materialIndex), else every slot.
SearchMaterials(mesh, idx) ==
    IF idx # 0 /\ idx <= Len(material[mesh])
    THEN <<material[mesh][idx]>>
    ELSE material[mesh]

\* The object literal returned for material.userData.inspectableContainer.
MaterialOverrideInfo(mesh, el) ==
    [Blank EXCEPT !.element = el,
                  !.width = OrNum(OffsetWidth(el), 512),
                  !.height = OrNum(OffsetHeight(el), 683),
                  !.scale = 2,
                  !.mesh = mesh]

\* The object literal returned for a canvas that owns a ghost layer.
GhostInfo(canvas) ==
    [Blank EXCEPT !.element = GhostOf(canvas),
                  !.width = BitmapWidth(canvas),
                  !.height = BitmapHeight(canvas),
                  !.scale = 1,
                  !.textureSourceCanvas = canvas,
                  !.ghostContainer = GhostOf(canvas)]

\* The object literal returned by pass 2 for a DOM-displayable source.
RawSourceInfo(mesh, canvas) ==
    [Blank EXCEPT !.element = canvas,
                  !.width = BitmapWidth(canvas),
                  !.height = BitmapHeight(canvas),
                  !.scale = 1,
                  !.mesh = mesh,
                  !.isRawSource = TRUE,
                  !.wasConnected = IsConnected(dom, canvas)]

\* A pass 1 that looks for the canvas's ghost layer before the registry.
RECURSIVE Pass1GhostFirst(_, _, _)
Pass1GhostFirst(mesh, sm, i) ==
    IF i > Len(sm) THEN NoInfo
    ELSE LET mat == sm[i] IN
        IF mat.inspectableContainer # None
        THEN MaterialOverrideInfo(mesh, mat.inspectableContainer)
        ELSE IF mat.map = None THEN Pass1GhostFirst(mesh, sm, i + 1)
        ELSE IF IsCanvas(mat.map) /\ mat.map \in ghost
        THEN GhostInfo(mat.map)
        ELSE IF IsCanvas(mat.map) /\ registry[mat.map] # 0
        THEN RefTo(registry[mat.map])
        ELSE Pass1GhostFirst(mesh, sm, i + 1)

\* Pass 1 from the i-th searched material on: explicit override, then the
\* registry, then the ghost layer of the material's canvas.
RECURSIVE Pass1(_, _, _)
Pass1(mesh, sm, i) ==
    IF i > Len(sm) THEN NoInfo
    ELSE LET mat == sm[i] IN
        IF mat.inspectableContainer # None
        THEN MaterialOverrideInfo(mesh, mat.inspectableContainer)
        ELSE IF mat.map = None THEN Pass1(mesh, sm, i + 1)
        ELSE IF IsCanvas(mat.map) /\ registry[mat.map] # 0
        THEN RefTo(registry[mat.map])
        ELSE IF IsCanvas(mat.map) /\ mat.map \in ghost
        THEN GhostInfo(mat.map)
        ELSE Pass1(mesh, sm, i + 1)

\* Pass 2 from the i-th searched material on: any texture whose data is an
\* HTMLElement is a raw source.
RECURSIVE Pass2(_, _, _)
Pass2(mesh, sm, i) ==
    IF i > Len(sm) THEN NoInfo
    ELSE LET mat == sm[i] IN
        IF mat.map = None THEN Pass2(mesh, sm, i + 1)
        ELSE IF IsHTMLElement(mat.map) THEN RawSourceInfo(mesh, mat.map)
        ELSE Pass2(mesh, sm, i + 1)

\* associateMeshWithCanvas(mesh, event): the value returned.  Its side
\* effect (info.mesh = mesh on a registry hit) is applied by the caller's
\* action, which stores the same mesh again (captureInfo.mesh = mesh).
associateMeshWithCanvas(mesh, idx) ==
    LET sm == SearchMaterials(mesh, idx)
        p1 == Pass1(mesh, sm, 1)
    IN IF p1 # NoInfo THEN p1 ELSE Pass2(mesh, sm, 1)

\* The fallback literal of handleContextMenu for mesh.userData.
MeshOverrideInfo(mesh) ==
    [Blank EXCEPT !.element = meshUserData[mesh],
                  !.width = OrNum(OffsetWidth(meshUserData[mesh]), 200),
                  !.height = OrNum(OffsetHeight(meshUserData[mesh]), 200),
                  !.scale = 2,
                  !.mesh = mesh]

\* The captureInfo handleContextMenu ends up with (before captureInfo.mesh
\* = mesh), NoInfo when it returns early.
ResolveForMenu(mesh, idx) ==
    LET found == associateMeshWithCanvas(mesh, idx) IN
    IF found = NoInfo /\ meshUserData[mesh] # None
    THEN MeshOverrideInfo(mesh)
    ELSE found


\* The slot of `mesh` the resolver's answer comes from (0: no slot, i.e. the
\* mesh-level fallback or no answer).  Bookkeeping for the properties only.
RECURSIVE FirstSlot(_, _, _)
FirstSlot(mesh, i, pass) ==
    IF i > Len(material[mesh]) THEN 0
    ELSE IF (IF pass = 1 THEN Pass1(mesh, <<material[mesh][i]>>, 1)
                         ELSE Pass2(mesh, <<material[mesh][i]>>, 1)) # NoInfo
    THEN i
    ELSE FirstSlot(mesh, i + 1, pass)

ResolvedSlot(mesh, idx) ==
    IF associateMeshWithCanvas(mesh, idx) = NoInfo THEN 0
    ELSE IF idx # 0 /\ idx <= Len(material[mesh]) THEN idx
    ELSE IF FirstSlot(mesh, 1, 1) # 0 THEN FirstSlot(mesh, 1, 1)
    ELSE FirstSlot(mesh, 1, 2)

\* --------------------------------------------------------- context menu
NoMenu == [shown |-> FALSE, captureInfo |-> NoInfo, pickedMesh |-> None, slot |-> 0]

\* A stamp that keeps the first mesh a record was resolved for.
StampMeshOnce(h, ref, mesh) ==
    IF h[ref].mesh = None THEN [h EXCEPT ![ref].mesh = mesh] ELSE h

\* info.mesh = mesh on the registry's object (and captureInfo.mesh = mesh
\* again in handleContextMenu).
StampMesh(h, ref, mesh) == [h EXCEPT ![ref].mesh = mesh]

\* Inspectable.handleContextMenu(event) for event.object = mesh and
\* event.face.materialIndex = idx - 1 (idx = 0: none).  Returns early when
\* nothing resolves; otherwise stamps the mesh and shows the context menu.
HandleContextMenu(mesh, idx) ==
    LET ci == ResolveForMenu(mesh, idx) IN
    /\ ci # NoInfo
    /\ heap' = IF ci.ref # 0 THEN StampMesh(heap, ci.ref, mesh) ELSE heap
    /\ menu' = [shown |-> TRUE,
                captureInfo |-> IF ci.ref # 0 THEN ci ELSE [ci EXCEPT !.mesh = mesh],
                pickedMesh |-> mesh,
                slot |-> ResolvedSlot(mesh, idx)]
    /\ UNCHANGED <<material, meshUserData, registry, ghost, dom, modal,
                   observers, captures, ncap, wrappers, nwrap,
                   drawVars, escaped>>

\* ContextMenuState.onClose without onInspect (click outside, Escape).
HideContextMenu ==
    /\ menu.shown
    /\ menu' = NoMenu
    /\ UNCHANGED <<material, meshUserData, heap, registry, ghost, dom, modal,
                   observers, captures, ncap, wrappers, nwrap,
                   drawVars, escaped>>

\* ------------------------------------------------------- ModalContent
NoStyle == [position |-> "", left |-> ""]

NoModal ==
    [open |-> FALSE, captureInfo |-> NoInfo, container |-> None,
     liveSync |-> FALSE, originalStyle |-> NoStyle,
     pickedMesh |-> None, slot |-> 0, wasAttached |-> FALSE, origParent |-> None,
     origPosition |-> "", origLeft |-> "", origTransform |-> "", origZIndex |-> ""]

\* const container = captureInfo.ghostContainer || captureInfo.element
EffectContainer(ci) ==
    IF Deref(ci).ghostContainer # None THEN Deref(ci).ghostContainer
    ELSE Deref(ci).element

\* The guard of the live-sync branch of the effect.
LiveSyncGuard(ci) ==
    /\ ~Deref(ci).isRawSource
    /\ Deref(ci).mesh # None
    /\ Deref(ci).textureSourceCanvas = None

\* The effect body up to the append: the node is restyled (z-index only
\* over a texture source canvas) and moved into contentRef.current.
AttachElement(d, container, ci) ==
    [d EXCEPT ![container] =
        [parent |-> "content", position |-> "relative", left |-> "0",
         transform |-> "none",
         zIndex |-> IF Deref(ci).textureSourceCanvas # None THEN "1"
                    ELSE d[container].zIndex]]

\* A restoreElement() that leaves the node where it is.
RestoreElementSkipped(d, container, ci, originalStyle, refLive) == d

\* restoreElement().  refLive: contentRef.current still is the content div
\* (it is while the component stays mounted, not when it unmounts).
RestoreElement(d, container, ci, originalStyle, refLive) ==
    IF Deref(ci).wasConnected
    THEN [d EXCEPT ![container] =
            [d[container] EXCEPT
               !.parent = "body",
               !.position = OrStr(originalStyle.position, "absolute"),
               !.left = OrStr(originalStyle.left, "-9999px")]]
    ELSE IF d[container].parent = "content" /\ refLive
    THEN [d EXCEPT ![container].parent = None]
    ELSE d

\* The content div is removed from the document: what it holds is outside
\* the document from then on.
LeaveDocument(d) ==
    [n \in Nodes |-> IF d[n].parent = "content" THEN [d[n] EXCEPT !.parent = None]
                     ELSE d[n]]

\* A cleanup that does not disconnect the observer.
DisconnectSkipped(obs, m) == obs

\* observer.disconnect() of the effect's cleanup: the session's observer
\* (and its undelivered records) is gone.
Disconnect(obs, m) ==
    IF m.liveSync
    THEN {o \in obs : ~(o.target = m.container /\ o.info = m.captureInfo)}
    ELSE obs

\* new MutationObserver(updateTexture); observer.observe(container, ...)
NewObserver(m) ==
    [target |-> m.container, info |-> m.captureInfo, pending |-> FALSE,
     live |-> TRUE, pickedMesh |-> m.pickedMesh, slot |-> m.slot]

\* originalStyleRef.current = {position, left} of the container's style.
SaveOriginalStyle(d, container) ==
    [position |-> d[container].position, left |-> d[container].left]

\* The state of ModalContent after its effect ran for captureInfo ci.
EffectState(d, ci) ==
    [open |-> TRUE, captureInfo |-> ci, container |-> EffectContainer(ci),
     liveSync |-> LiveSyncGuard(ci),
     originalStyle |-> SaveOriginalStyle(d, EffectContainer(ci))]

\* Bookkeeping for the properties: what was picked, and where the node was
\* and how it was styled just before the session moved it.
SessionHistory(d, container, picked) ==
    [pickedMesh |-> picked.pickedMesh, slot |-> picked.slot,
     wasAttached |-> IsConnected(d, container),
     origParent |-> d[container].parent,
     origPosition |-> d[container].position,
     origLeft |-> d[container].left,
     origTransform |-> d[container].transform,
     origZIndex |-> d[container].zIndex]

\* Bookkeeping: the observers and captures of a session that ends are
\* marked; a capture remembers how its session ended ("closed" by
\* hideModal, "replaced" by the next session).
MarkClosedObs(obs) == {[o EXCEPT !.live = FALSE] : o \in obs}
MarkEnded(cs, how) == {IF c.ended = "no" THEN [c EXCEPT !.ended = how] ELSE c : c \in cs}

\* ContextMenuState.onInspect (showModal) followed by onClose: the menu
\* item's click handler.  React keeps a mounted ModalContent and re-runs
\* its effect only when captureInfo is another object: then the old
\* effect's cleanup runs first.
OnInspect ==
    /\ menu.shown
    /\ LET ci == menu.captureInfo
           sameObject == modal.open /\ ci.ref # 0 /\ modal.captureInfo = ci
           obs1 == IF modal.open THEN MarkClosedObs(Disconnect(observers, modal))
                   ELSE observers
           d1 == IF modal.open
                 THEN RestoreElement(dom, modal.container, modal.captureInfo,
                                     modal.originalStyle, TRUE)
                 ELSE dom
           m2 == EffectState(d1, ci)
                 @@ SessionHistory(d1, EffectContainer(ci), menu)
       IN IF sameObject
          THEN UNCHANGED <<modal, dom, observers, captures>>
          ELSE /\ modal' = m2
               /\ dom' = AttachElement(d1, m2.container, ci)
               /\ observers' = IF m2.liveSync THEN obs1 \cup {NewObserver(m2)} ELSE obs1
               /\ captures' = IF modal.open THEN MarkEnded(captures, "replaced") ELSE captures
    /\ menu' = NoMenu
    /\ UNCHANGED <<material, meshUserData, heap, registry, ghost, ncap,
                   wrappers, nwrap,
                   drawVars, escaped>>

\* hideModal(): ModalContent unmounts.  React clears contentRef.current
\* before it runs the effect's cleanup, and the content div leaves the
\* document with whatever it still holds.
HideModal ==
    /\ modal.open
    /\ dom' = LeaveDocument(RestoreElement(dom, modal.container, modal.captureInfo,
                                           modal.originalStyle, FALSE))
    /\ observers' = MarkClosedObs(Disconnect(observers, modal))
    /\ captures' = MarkEnded(captures, "closed")
    /\ modal' = NoModal
    /\ UNCHANGED <<material, meshUserData, heap, registry, ghost, menu, ncap,
                   wrappers, nwrap,
                   drawVars, escaped>>

\* ------------------------------------------------------------ live sync
\* A mutation (child list, subtree, attribute, character data) inside node e:
\* every connected observer of e gets a record to deliver.
Mutate(e) ==
    /\ \E o \in observers : o.target = e /\ ~o.pending
    /\ observers' = {IF o.target = e THEN [o EXCEPT !.pending = TRUE] ELSE o :
                     o \in observers}
    /\ UNCHANGED <<material, meshUserData, heap, registry, ghost, dom, menu,
                   modal, captures, ncap, wrappers, nwrap,
                   drawVars, escaped>>

\* An updateTexture that measures the container instead of reading the
\* recorded size.
StartCaptureMeasured(o, k) ==
    [id |-> k, container |-> o.target, info |-> o.info,
     width |-> OffsetWidth(o.target), height |-> OffsetHeight(o.target),
     scale |-> Deref(o.info).scale,
     ended |-> IF o.live THEN "no" ELSE "closed", pickedMesh |-> o.pickedMesh, slot |-> o.slot]

\* The call originalHtml2canvas(container, {width, height, scale, ...}) made
\* by updateTexture: the k-th capture, with the arguments read at the call.
StartCapture(o, k) ==
    [id |-> k, container |-> o.target, info |-> o.info,
     width |-> Deref(o.info).width, height |-> Deref(o.info).height,
     scale |-> Deref(o.info).scale,
     ended |-> IF o.live THEN "no" ELSE "closed", pickedMesh |-> o.pickedMesh, slot |-> o.slot]

\* The observer callback: updateTexture up to its await.
ObserverCallback(o) ==
    /\ o \in observers
    /\ o.pending
    /\ ncap < MaxCaptures
    /\ observers' = (observers \ {o}) \cup {[o EXCEPT !.pending = FALSE]}
    /\ IF Deref(o.info).mesh = None
       THEN UNCHANGED <<captures, ncap>>
       ELSE /\ captures' = captures \cup {StartCapture(o, ncap + 1)}
            /\ ncap' = ncap + 1
    /\ UNCHANGED <<material, meshUserData, heap, registry, ghost, dom, menu,
                   modal, wrappers, nwrap,
                   drawVars, escaped>>

\* materials.find(m => m.map): the first slot from i on that has a map, 0 if
\* none has.
RECURSIVE FindTargetMaterial(_, _)
FindTargetMaterial(mats, i) ==
    IF i > Len(mats) THEN 0
    ELSE IF mats[i].map # None THEN i
    ELSE FindTargetMaterial(mats, i + 1)

\* An updateTexture that assigns the new map and does not mark the material.
ApplyCaptureUnmarked(mat, c) ==
    LET mesh == Deref(c.info).mesh
        t == FindTargetMaterial(mat[mesh], 1)
    IN IF t = 0 THEN mat
       ELSE [mat EXCEPT ![mesh][t].map = FreshCanvas(c.id)]

\* An updateTexture that drops a result when the target already shows the
\* result of a capture started later.
ApplyCaptureSequenced(mat, c) ==
    LET mesh == Deref(c.info).mesh
        t == FindTargetMaterial(mat[mesh], 1)
    IN IF t = 0 THEN mat
       ELSE IF \E j \in (c.id + 1)..ncap : mat[mesh][t].map = FreshCanvas(j) THEN mat
       ELSE [mat EXCEPT ![mesh][t].map = FreshCanvas(c.id),
                        ![mesh][t].needsUpdate = TRUE]

\* updateTexture after the await resolved with a new canvas: a new texture
\* is written to the target material of captureInfo.mesh (as it is now).
ApplyCapture(mat, c) ==
    LET mesh == Deref(c.info).mesh
        t == FindTargetMaterial(mat[mesh], 1)
    IN IF t = 0 THEN mat
       ELSE [mat EXCEPT ![mesh][t].map = FreshCanvas(c.id),
                        ![mesh][t].needsUpdate = TRUE]

CaptureResolved(c) ==
    /\ c \in captures
    /\ material' = ApplyCapture(material, c)
    /\ captures' = captures \ {c}
    /\ UNCHANGED <<meshUserData, heap, registry, ghost, dom, menu, modal,
                   observers, ncap, wrappers, nwrap,
                   drawVars, escaped>>

\* An updateTexture without try / catch: its promise rejects, unhandled.
UpdateTextureUncaught(esc, c) == esc \cup {[source |-> "updateTexture", id |-> c.id]}

\* catch (e) { console.error('Live texture update failed:', e) }: what has
\* escaped to the application stays as it was.
UpdateTextureCaught(esc, c) == esc

\* updateTexture after the await rejected: the catch logs and returns.
CaptureRejected(c) ==
    /\ c \in captures
    /\ captures' = captures \ {c}
    /\ escaped' = UpdateTextureCaught(escaped, c)
    /\ UNCHANGED <<material, meshUserData, heap, registry, ghost, dom, menu,
                   modal, observers, ncap, wrappers, nwrap,
                   drawVars>>

\* The renderer uploads the materials marked for update and clears the mark.
Render ==
    /\ \E m \in Meshes : \E i \in DOMAIN material[m] : material[m][i].needsUpdate
    /\ material' = [m \in Meshes |->
                      [i \in DOMAIN material[m] |->
                         [material[m][i] EXCEPT !.needsUpdate = FALSE]]]
    /\ UNCHANGED <<meshUserData, heap, registry, ghost, dom, menu, modal,
                   observers, captures, ncap, wrappers, nwrap,
                   drawVars, escaped>>

\* --------------------------------------------------- html2canvas wrapper
\* html2canvas(element, options) up to its await.
Html2CanvasCall(element, w, h, sc) ==
    /\ nwrap < MaxWrapperCalls
    /\ wrappers' = wrappers \cup
          {[id |-> nwrap + 1, element |-> element, width |-> w, height |-> h, scale |-> sc]}
    /\ nwrap' = nwrap + 1
    /\ UNCHANGED <<material, meshUserData, heap, registry, ghost, dom, menu,
                   modal, observers, captures, ncap,
                   drawVars, escaped>>

\* A wrapper that records the default scale whatever the options say.
RegistryRecordDefaultScale(call) ==
    [Blank EXCEPT !.element = call.element,
                  !.width = OrNum(call.width, OffsetWidth(call.element)),
                  !.height = OrNum(call.height, OffsetHeight(call.element)),
                  !.scale = 1]

\* The record html2canvas registers for a finished call.
RegistryRecord(call) ==
    [Blank EXCEPT !.element = call.element,
                  !.width = OrNum(call.width, OffsetWidth(call.element)),
                  !.height = OrNum(call.height, OffsetHeight(call.element)),
                  !.scale = OrNum(call.scale, 1)]

\* html2canvas after its await resolved with `canvas` (a canvas of the
\* caller's, options.canvas, or one not seen before): containerRegistry.set.
Html2CanvasResolved(call, canvas) ==
    /\ call \in wrappers
    /\ heap' = Append(heap, RegistryRecord(call))
    /\ registry' = [registry EXCEPT ![canvas] = Len(heap) + 1]
    /\ wrappers' = wrappers \ {call}
    /\ UNCHANGED <<material, meshUserData, ghost, dom, menu, modal, observers,
                   captures, ncap, nwrap,
                   drawVars, escaped>>

\* A wrapper that swallows the rejection of the call it awaits.
AwaitRejectedSwallowed(esc, call) == esc

\* const canvas = await originalHtml2canvas(...) outside any try: the
\* rejection becomes the rejection of the wrapper's own promise.
AwaitRejected(esc, call) == esc \cup {[source |-> "html2canvas", id |-> call.id]}

\* html2canvas after its await rejected: the rejection goes to the caller.
Html2CanvasRejected(call) ==
    /\ call \in wrappers
    /\ wrappers' = wrappers \ {call}
    /\ escaped' = AwaitRejected(escaped, call)
    /\ UNCHANGED <<material, meshUserData, heap, registry, ghost, dom, menu,
                   modal, observers, captures, ncap, nwrap,
                   drawVars>>


\* ------------------------------------------------- drawing-API tracking
\* DOMMatrix, 2D: the point (x, y) goes to (a x + c y + e, b x + d y + f).
Identity == [a |-> 1, b |-> 0, c |-> 0, d |-> 1, e |-> 0, f |-> 0]

\* A canvas without __inspectable_matrix / __inspectable_stack (has is
\* FALSE, the other fields are not read), and one whose ghost ensureGhost
\* has just made.
NoTracking == [has |-> FALSE, matrix |-> Identity, stack |-> <<>>]
FreshTracking == [has |-> TRUE, matrix |-> Identity, stack |-> <<>>]

\* A 2D context as getContext('2d') returns it.
FreshContext == [ctm |-> Identity, stack |-> <<>>]

\* What the application runs the library with: the enableCanvas2DPatch
\* prop it passes, the build mode, and the canvases it made non-extensible
\* (Object.preventExtensions / freeze), on which adding a property throws.
DefaultConfig == [enableCanvas2DPatch |-> TRUE, production |-> FALSE, frozen |-> {}]

\* No drawing call has been made: the canvases that own a ghost have fresh
\* tracking state, the others none.  InitLoaded: the module has been
\* evaluated once, so the prototype is wrapped once.
InitTracking ==
    /\ tracked = [c \in Canvases0 |-> IF c \in ghost THEN FreshTracking ELSE NoTracking]
    /\ layer = [c \in Canvases0 |-> <<>>]
    /\ context = [c \in Canvases0 |-> FreshContext]
    /\ log = <<>>
    /\ escaped = {}

InitLoaded ==
    /\ patched = TRUE
    /\ wraps = 1
    /\ config = DefaultConfig
    /\ InitTracking

\* Not-a-number, what Number(undefined) is: a component that holds it
\* stays so under every sum and product.
NaN == 0 - 1000000
Plus(x, y) == IF x = NaN \/ y = NaN THEN NaN ELSE x + y
Times(x, y) == IF x = NaN \/ y = NaN THEN NaN ELSE x * y
Neg(x) == IF x = NaN THEN NaN ELSE 0 - x

\* m x n: the matrix that applies n first, then m (multiplySelf post-
\* multiplies: this = this x other).
MatMul(m, n) ==
    [a |-> Plus(Times(m.a, n.a), Times(m.c, n.b)),
     b |-> Plus(Times(m.b, n.a), Times(m.d, n.b)),
     c |-> Plus(Times(m.a, n.c), Times(m.c, n.d)),
     d |-> Plus(Times(m.b, n.c), Times(m.d, n.d)),
     e |-> Plus(Plus(Times(m.a, n.e), Times(m.c, n.f)), m.e),
     f |-> Plus(Plus(Times(m.b, n.e), Times(m.d, n.f)), m.f)]

\* A translation applied before the matrix instead of after it.
TranslateSelfBefore(m, x, y) == [m EXCEPT !.e = Plus(m.e, x), !.f = Plus(m.f, y)]

\* DOMMatrix.translateSelf(x, y): only e and f change.
TranslateSelf(m, x, y) ==
    [m EXCEPT !.e = Plus(Plus(Times(m.a, x), Times(m.c, y)), m.e),
              !.f = Plus(Plus(Times(m.b, x), Times(m.d, y)), m.f)]

\* DOMMatrix.scaleSelf(x, y): the columns are stretched.
ScaleSelf(m, x, y) ==
    [m EXCEPT !.a = Times(m.a, x), !.b = Times(m.b, x),
              !.c = Times(m.c, y), !.d = Times(m.d, y)]

\* DOMMatrix.rotateSelf(deg), for the right angles: the columns turn.
RotateSelf(m, deg) ==
    LET q == (deg \div 90) % 4 IN
    IF q = 0 THEN m
    ELSE IF q = 1 THEN [m EXCEPT !.a = m.c, !.b = m.d, !.c = Neg(m.a), !.d = Neg(m.b)]
    ELSE IF q = 2 THEN [m EXCEPT !.a = Neg(m.a), !.b = Neg(m.b), !.c = Neg(m.c), !.d = Neg(m.d)]
    ELSE [m EXCEPT !.a = Neg(m.c), !.b = Neg(m.d), !.c = m.a, !.d = m.b]

\* angle * (180 / Math.PI), for an angle given in quarter turns (pi / 2).
ToDegrees(quarterTurns) == quarterTurns * 90

\* new DOMMatrix() with m.a = a; ... m.f = f.
MatrixOf(args) ==
    [a |-> args[1], b |-> args[2], c |-> args[3], d |-> args[4], e |-> args[5], f |-> args[6]]

\* projectPoint(matrix, x, y)
ProjectPoint(m, x, y) ==
    [x |-> Plus(Plus(Times(m.a, x), Times(m.c, y)), m.e),
     y |-> Plus(Plus(Times(m.b, x), Times(m.d, y)), m.f)]

\* The tracking state of one canvas, as the wrappers read it.
Surface(c) ==
    [canvas |-> c, ghost |-> c \in ghost, has |-> tracked[c].has,
     matrix |-> tracked[c].matrix, stack |-> tracked[c].stack, kids |-> layer[c]]

\* What a wrapper's bookkeeping leaves: the surface, and whether it threw.
Done(sf) == [sf |-> sf, threw |-> FALSE]
Threw(sf) == [sf |-> sf, threw |-> TRUE]

\* ensureGhost(canvas): the first call makes the ghost, the matrix and the
\* stack; on a non-extensible canvas the first assignment throws.
EnsureGhost(sf) ==
    IF sf.ghost THEN Done(sf)
    ELSE IF sf.canvas \in config.frozen THEN Threw(sf)
    ELSE Done([sf EXCEPT !.ghost = TRUE, !.has = TRUE, !.matrix = Identity,
                         !.stack = <<>>, !.kids = <<>>])

\* The single argument of setTransform(arg).  kind says what it is:
\* "absent" (no such argument), "matrix" (a DOMMatrix or a well-formed
\* DOMMatrix2DInit with the components m), "malformed" (an object that
\* DOMMatrix.fromMatrix rejects, such as {a: 1, m11: 2}), "undefined", or
\* "number" (the number m.a).
NoInit == [kind |-> "absent", m |-> Identity]
MatrixInit(kind, m) == [kind |-> kind, m |-> m]

\* A call of the drawing API: the method, the context's canvas, the
\* numeric arguments.  rotate takes its angle in quarter turns; fillText
\* and strokeText take (text, x, y) with the text as a number.
Call(op, canvas, args) ==
    [op |-> op, canvas |-> canvas, args |-> args, image |-> None, init |-> NoInit]

\* drawImage(image, ...): args are the numbers after the image, two
\* (dx, dy), four (dx, dy, dw, dh) or eight (sx, sy, sw, sh, dx, dy, dw, dh).
DrawImageCall(canvas, image, args) ==
    [op |-> "drawImage", canvas |-> canvas, args |-> args, image |-> image,
     init |-> NoInit]

\* setTransform(arg)
SetTransformCall(canvas, init) ==
    [op |-> "setTransform", canvas |-> canvas, args |-> <<>>, image |-> None,
     init |-> init]

\* ctxProto.save: pushes a copy of the matrix when the canvas is tracked.
SaveBook(sf) ==
    IF sf.has
    THEN Done([sf EXCEPT !.stack = Append(sf.stack, [matrix |-> sf.matrix])])
    ELSE Done(sf)

\* A restore that pops without looking at the stack's length.
RestoreBookUnguarded(sf) ==
    IF Len(sf.stack) > 0
    THEN Done([sf EXCEPT !.matrix = sf.stack[Len(sf.stack)].matrix,
                         !.stack = SubSeq(sf.stack, 1, Len(sf.stack) - 1)])
    ELSE Threw(sf)

\* ctxProto.restore: pops when the stack is not empty.
RestoreBook(sf) ==
    IF Len(sf.stack) > 0
    THEN Done([sf EXCEPT !.matrix = sf.stack[Len(sf.stack)].matrix,
                         !.stack = SubSeq(sf.stack, 1, Len(sf.stack) - 1)])
    ELSE Done(sf)

\* The matrix a transform method leaves in __inspectable_matrix.
TransformSelf(m, call) ==
    IF call.op = "translate" THEN TranslateSelf(m, call.args[1], call.args[2])
    ELSE IF call.op = "rotate" THEN RotateSelf(m, ToDegrees(call.args[1]))
    ELSE IF call.op = "scale" THEN ScaleSelf(m, call.args[1], call.args[2])
    ELSE MatMul(m, MatrixOf(call.args))

\* ctxProto.translate / rotate / scale / transform
TransformBook(sf, call) ==
    LET g == EnsureGhost(sf) IN
    IF g.threw THEN g
    ELSE Done([g.sf EXCEPT !.matrix = TransformSelf(g.sf.matrix, call)])

\* m.a = a; ... m.f = f with the six parameters of a call that passed one
\* argument that is no object: b .. f are undefined.
MatrixOfOne(init) ==
    [a |-> IF init.kind = "number" THEN init.m.a ELSE NaN,
     b |-> NaN, c |-> NaN, d |-> NaN, e |-> NaN, f |-> NaN]

\* A setTransform that multiplies the tracked matrix by its argument.
SetTransformMatrixMultiplied(m, call) ==
    IF call.init.kind = "absent" /\ Len(call.args) = 0 THEN Identity
    ELSE IF call.init.kind = "matrix" THEN MatMul(m, call.init.m)
    ELSE IF call.init.kind = "malformed" THEN Identity
    ELSE IF call.init.kind = "absent" THEN MatMul(m, MatrixOf(call.args))
    ELSE MatrixOfOne(call.init)

\* The matrix setTransform leaves in __inspectable_matrix: arguments.length
\* === 0; one argument with typeof 'object' (DOMMatrix.fromMatrix, identity
\* when it throws); anything else is read as six numbers.
SetTransformMatrix(m, call) ==
    IF call.init.kind = "absent" /\ Len(call.args) = 0 THEN Identity
    ELSE IF call.init.kind = "matrix" THEN call.init.m
    ELSE IF call.init.kind = "malformed" THEN Identity
    ELSE IF call.init.kind = "absent" THEN MatrixOf(call.args)
    ELSE MatrixOfOne(call.init)

\* ctxProto.setTransform
SetTransformBook(sf, call) ==
    LET g == EnsureGhost(sf) IN
    IF g.threw THEN g
    ELSE Done([g.sf EXCEPT !.matrix = SetTransformMatrix(g.sf.matrix, call)])

\* The test both clearRect and fillRect make for a full clear.
IsFullClear(call) ==
    /\ call.args[1] = 0
    /\ call.args[2] = 0
    /\ call.args[3] >= BitmapWidth(call.canvas)
    /\ call.args[4] >= BitmapHeight(call.canvas)

\* ctxProto.clearRect
ClearRectBook(sf, call) ==
    LET g == EnsureGhost(sf) IN
    IF g.threw THEN g
    ELSE IF IsFullClear(call) THEN Done([g.sf EXCEPT !.kids = <<>>])
    ELSE g

\* recordElement(ctx, el, x, y, isInteractive, ...): el gets left / top from
\* the projected point and becomes the ghost's last child.
RecordElement(sf, type, x, y, isInteractive) ==
    LET g == EnsureGhost(sf) IN
    IF g.threw THEN g
    ELSE LET pt == ProjectPoint(g.sf.matrix, x, y) IN
         Done([g.sf EXCEPT !.kids = Append(g.sf.kids,
                  [type |-> type, left |-> pt.x, top |-> pt.y,
                   interactive |-> isInteractive])])

\* ctxProto.fillText / strokeText
TextBook(sf, call) ==
    RecordElement(sf, IF call.op = "fillText" THEN "text" ELSE "text-stroke",
                  call.args[2], call.args[3], TRUE)

\* ctxProto.fillRect
FillRectBook(sf, call) ==
    LET g == IF IsFullClear(call) THEN EnsureGhost(sf) ELSE Done(sf) IN
    IF g.threw THEN g
    ELSE RecordElement(IF IsFullClear(call) THEN [g.sf EXCEPT !.kids = <<>>] ELSE g.sf,
                       "rect-fill", call.args[1], call.args[2], FALSE)

\* ctxProto.strokeRect
StrokeRectBook(sf, call) ==
    RecordElement(sf, "rect-stroke", call.args[1], call.args[2], FALSE)

\* dx, dy, dw, dh of a drawImage call, by the number of its arguments:
\* the image's own size in the short form, zeros for any other count.
DestRect(call) ==
    LET n == Len(call.args) IN
    IF n = 2
    THEN [dx |-> call.args[1], dy |-> call.args[2],
          dw |-> BitmapWidth(call.image), dh |-> BitmapHeight(call.image)]
    ELSE IF n = 4
    THEN [dx |-> call.args[1], dy |-> call.args[2], dw |-> call.args[3], dh |-> call.args[4]]
    ELSE IF n = 8
    THEN [dx |-> call.args[5], dy |-> call.args[6], dw |-> call.args[7], dh |-> call.args[8]]
    ELSE [dx |-> 0, dy |-> 0, dw |-> 0, dh |-> 0]

\* An overlay test that also takes the rectangle of exactly 85 percent.
IsOverlayAtLeast(call) ==
    DestRect(call).dw * DestRect(call).dh * 100
       >= BitmapWidth(call.canvas) * BitmapHeight(call.canvas) * 85

\* imgArea > canvasArea * 0.85.  For whole-pixel sizes the double product
\* canvasArea * 0.85 is the exact value whenever that value is a whole
\* number and is otherwise at least 0.05 away from every whole number, so
\* the comparison is the exact one of dw * dh * 100 with canvasArea * 85.
IsOverlay(call) ==
    DestRect(call).dw * DestRect(call).dh * 100
       > BitmapWidth(call.canvas) * BitmapHeight(call.canvas) * 85

\* drawImage, the part inside try { } catch { }.
DrawImageBook(sf, call) ==
    LET r == RecordElement(sf, "image", DestRect(call).dx, DestRect(call).dy,
                           ~IsOverlay(call)) IN
    IF r.threw THEN Done(sf) ELSE r

\* The bookkeeping of one wrapper layer for `call`.
Bookkeeping(sf, call) ==
    IF call.op = "save" THEN SaveBook(sf)
    ELSE IF call.op = "restore" THEN RestoreBook(sf)
    ELSE IF call.op \in {"translate", "rotate", "scale", "transform"}
    THEN TransformBook(sf, call)
    ELSE IF call.op = "setTransform" THEN SetTransformBook(sf, call)
    ELSE IF call.op = "clearRect" THEN ClearRectBook(sf, call)
    ELSE IF call.op \in {"fillText", "strokeText"} THEN TextBook(sf, call)
    ELSE IF call.op = "fillRect" THEN FillRectBook(sf, call)
    ELSE IF call.op = "strokeRect" THEN StrokeRectBook(sf, call)
    ELSE DrawImageBook(sf, call)

\* A call through n wrapper layers: each layer does its bookkeeping and then
\* applies what it wrapped; a throw ends the call before the original runs.
RECURSIVE Wrapped(_, _, _)
Wrapped(n, sf, call) ==
    IF n = 0 THEN Done(sf)
    ELSE LET r == Bookkeeping(sf, call) IN
         IF r.threw THEN r ELSE Wrapped(n - 1, r.sf, call)

\* The matrix the real context multiplies its transform by.
OpMatrix(call) ==
    IF call.op = "translate"
    THEN [a |-> 1, b |-> 0, c |-> 0, d |-> 1, e |-> call.args[1], f |-> call.args[2]]
    ELSE IF call.op = "scale"
    THEN [a |-> call.args[1], b |-> 0, c |-> 0, d |-> call.args[2], e |-> 0, f |-> 0]
    ELSE IF call.op = "rotate"
    THEN LET q == call.args[1] % 4
             cos == IF q = 0 THEN 1 ELSE IF q = 2 THEN 0 - 1 ELSE 0
             sin == IF q = 1 THEN 1 ELSE IF q = 3 THEN 0 - 1 ELSE 0
         IN [a |-> cos, b |-> sin, c |-> 0 - sin, d |-> cos, e |-> 0, f |-> 0]
    ELSE MatrixOf(call.args)

\* The browser's setTransform(arg) throws a TypeError for an argument it
\* cannot read as a DOMMatrix2DInit: an inconsistent object, a number.
OriginalThrows(call) ==
    call.op = "setTransform" /\ call.init.kind \in {"malformed", "number"}

\* original<Method>.apply(this, arguments): what the browser's own method
\* does to the context's transform state.
Original(cx, call) ==
    IF OriginalThrows(call) THEN cx
    ELSE IF call.op = "save" THEN [cx EXCEPT !.stack = Append(cx.stack, cx.ctm)]
    ELSE IF call.op = "restore"
    THEN IF Len(cx.stack) = 0 THEN cx
         ELSE [ctm |-> cx.stack[Len(cx.stack)], stack |-> SubSeq(cx.stack, 1, Len(cx.stack) - 1)]
    ELSE IF call.op \in {"translate", "rotate", "scale", "transform"}
    THEN [cx EXCEPT !.ctm = MatMul(cx.ctm, OpMatrix(call))]
    ELSE IF call.op = "setTransform"
    THEN [cx EXCEPT !.ctm = IF call.init.kind = "matrix" THEN call.init.m
                            ELSE IF Len(call.args) = 6 THEN MatrixOf(call.args)
                            ELSE Identity]
    ELSE cx

\* drawImage, after the try: a tracked source drawn onto a canvas without
\* a record gives the destination a copy of the source's record.
Propagates(call) ==
    /\ call.op = "drawImage"
    /\ wraps > 0
    /\ IsCanvas(call.image)
    /\ registry[call.image] # 0
    /\ registry[call.canvas] = 0

\* The methods that change a canvas's pixels.
PaintOps == {"clearRect", "fillText", "strokeText", "fillRect", "strokeRect", "drawImage"}

\* The pixels of canvas c after the first k calls of the log, as the
\* sequence of the painting calls the browser applied to it: equal
\* sequences are equal pixels.
RECURSIVE Painted(_, _)
Painted(c, k) ==
    IF k = 0 THEN <<>>
    ELSE IF /\ log[k].call.canvas = c
            /\ log[k].call.op \in PaintOps
            /\ log[k].delegated > 0
         THEN Append(Painted(c, k - 1), log[k].call)
         ELSE Painted(c, k - 1)

\* img is served by another origin without CORS approval.
CrossOrigin == {"img"}

\* Canvas c is not origin-clean after the first k calls: a cross-origin
\* image, or a canvas that was not origin-clean, has been drawn onto it.
RECURSIVE Tainted(_, _)
Tainted(c, k) ==
    IF k = 0 THEN FALSE
    ELSE \/ Tainted(c, k - 1)
         \/ /\ log[k].call.canvas = c
            /\ log[k].call.op = "drawImage"
            /\ log[k].delegated > 0
            /\ \/ log[k].call.image \in CrossOrigin
               \/ IsCanvas(log[k].call.image) /\ Tainted(log[k].call.image, k - 1)

\* A snapshot that is taken once the image has been drawn.
CurrentBackdropAfter(call) ==
    [has |-> TRUE, pixels |-> Append(Painted(call.canvas, Len(log)), call)]

\* const currentBackdrop = this.canvas.toDataURL(), which runs before
\* originalDrawImage.apply.
CurrentBackdrop(call) ==
    [has |-> TRUE, pixels |-> Painted(call.canvas, Len(log))]

\* this.canvas.toDataURL() throws a SecurityError on a canvas that is not
\* origin-clean; the catch around it drops the registration.
SnapshotThrows(call) == Tainted(call.canvas, Len(log))

\* One entry of the log: the call, how often the browser's method ran for
\* it, whether the bookkeeping threw to the caller, whether the browser's
\* method did, and the tracking state the call found.
LogEntry(call, r) ==
    [call |-> call, delegated |-> IF r.threw THEN 0 ELSE 1, threw |-> r.threw,
     rejected |-> ~r.threw /\ OriginalThrows(call),
     before |-> [has |-> tracked[call.canvas].has, matrix |-> tracked[call.canvas].matrix]]

\* The application calls a method of a 2D context: the installed wrapper
\* layers run, then the browser's method.
DrawCall(call) ==
    LET c == call.canvas
        r == Wrapped(wraps, Surface(c), call)
    IN /\ Len(log) < MaxDrawCalls
       /\ ghost' = IF r.sf.ghost THEN ghost \cup {c} ELSE ghost
       /\ tracked' = [tracked EXCEPT ![c] = [has |-> r.sf.has, matrix |-> r.sf.matrix,
                                             stack |-> r.sf.stack]]
       /\ layer' = [layer EXCEPT ![c] = r.sf.kids]
       /\ context' = IF r.threw THEN context
                     ELSE [context EXCEPT ![c] = Original(context[c], call)]
       /\ log' = Append(log, LogEntry(call, r))
       /\ escaped' = IF r.threw
                     THEN escaped \cup {[source |-> "canvas2d", id |-> Len(log) + 1]}
                     ELSE escaped
       /\ IF Propagates(call) /\ ~SnapshotThrows(call)
          THEN /\ heap' = Append(heap, [heap[registry[call.image]] EXCEPT
                                           !.backdrop = CurrentBackdrop(call)])
               /\ registry' = [registry EXCEPT ![c] = Len(heap) + 1]
          ELSE UNCHANGED <<heap, registry>>
       /\ UNCHANGED <<material, meshUserData, dom, menu, modal, observers,
                      captures, ncap, wrappers, nwrap, patched, wraps, config>>

\* A module evaluation that installs the wrappers whatever the flag says.
ShouldPatchAlways(flag) == TRUE

\* typeof window !== 'undefined' && !window.__r3f_inspectable_patched
ShouldPatch(flag) == ~flag

\* The module body is evaluated (the first import, a second copy of the
\* bundle, a hot reload): the wrappers are installed unless the flag is set.
Install ==
    /\ Len(log) < MaxDrawCalls
    /\ patched' = TRUE
    /\ wraps' = IF ShouldPatch(patched) THEN wraps + 1 ELSE wraps
    /\ log' = Append(log, [call |-> Call("install", None, <<>>), delegated |-> 0,
                           threw |-> FALSE, rejected |-> FALSE,
                           before |-> [has |-> FALSE, matrix |-> Identity]])
    /\ UNCHANGED <<material, meshUserData, heap, registry, ghost, dom, menu,
                   modal, observers, captures, ncap, wrappers, nwrap, tracked,
                   layer, context, config, escaped>>

\* ------------------------------------------------------------ initial state
Mat(map, ovr) == [map |-> map, needsUpdate |-> FALSE, inspectableContainer |-> ovr]

\* A node by its parent and its inline position and left; no inline
\* transform or z-index is set.
Style(parent, position, left) ==
    [parent |-> parent, position |-> position, left |-> left,
     transform |-> "", zIndex |-> ""]

\* Nothing shown, nothing pending.
InitIdle ==
    /\ menu = NoMenu
    /\ modal = NoModal
    /\ observers = {}
    /\ captures = {}
    /\ ncap = 0
    /\ wrappers = {}
    /\ nwrap = 0

\* A canvas made with document.createElement('canvas') or returned by
\* html2canvas is outside the document and carries no inline position.
DetachedNode == Style(None, "", "")
\* ensureGhost: position absolute, left 0, never appended anywhere.
GhostNode == Style(None, "absolute", "0")
\* The capture target of the README and the playground: appended to
\* document.body, position absolute, left -9999px.
OffscreenNode == Style("body", "absolute", "-9999px")

\* The registry as the wrapper left it after html2canvas(d1, {width: 1,
\* height: 1, scale: 2}) resolved with c1.
InitRegistry ==
    /\ heap = <<[Blank EXCEPT !.element = "d1", !.width = 1, !.height = 1, !.scale = 2]>>
    /\ registry = [c \in Canvases |-> IF c = "c1" THEN 1 ELSE 0]

Scene(a, b) == [m \in Meshes |-> IF m = "meshA" THEN a ELSE b]

\* Where no session has been yet: d1 is the off-screen capture target, img
\* sits in the page, the other nodes are outside the document.
InitDom ==
    dom = [n \in Nodes |->
             IF n = "d1" THEN OffscreenNode
             ELSE IF n = "img" THEN Style("host", "", "")
             ELSE IF n \in GhostNodes THEN GhostNode
             ELSE DetachedNode]

\* Scenes of Spec.  meshA has two material slots: the first holds a data
\* texture (no DOM source), the second the registered canvas c1; meshB has
\* one slot: it shares c1, or carries a manual override and no map, or
\* shows the image element.
Init ==
    /\ InitIdle
    /\ InitRegistry
    /\ ghost = {}
    /\ \E b \in {Mat("c1", None), Mat(None, "d2"), Mat("img", None)} :
          material = Scene(<<Mat("bmp", None), Mat("c1", None)>>, <<b>>)
    /\ meshUserData = [m \in Meshes |-> None]
    /\ InitDom
    /\ InitLoaded

\* The handlers of the context menu and the modal.
NextSession ==
    \/ \E mesh \in Meshes, idx \in 0..2 : HandleContextMenu(mesh, idx)
    \/ HideContextMenu
    \/ OnInspect
    \/ HideModal

\* The live-sync steps and the renderer.
NextLiveSync ==
    \/ \E e \in Nodes : Mutate(e)
    \/ \E o \in observers : ObserverCallback(o)
    \/ \E c \in captures : CaptureResolved(c)
    \/ \E c \in captures : CaptureRejected(c)
    \/ Render

Next == NextSession \/ NextLiveSync

Spec == Init /\ [][Next]_vars

\* ------------------------------------------------ resolver specification
\* Every combination, on the two slots of meshA, of a texture kind (none,
\* registered canvas, second canvas, image element, non-element data) and
\* a material-level override, with or without a mesh-level override, for
\* each set of ghosted canvases.  meshB shows the image element.
InitResolve ==
    /\ InitIdle
    /\ InitRegistry
    /\ ghost \in {{}, {"c2"}, {"c1", "c2"}}
    /\ \E t1 \in {None, "c1", "c2", "img", "bmp"}, o1 \in {None, "d2"},
          t2 \in {None, "c1", "c2", "img", "bmp"}, o2 \in {None, "d2"} :
          material = Scene(<<Mat(t1, o1), Mat(t2, o2)>>, <<Mat("img", None)>>)
    /\ \E u \in {None, "d3"} : meshUserData = [m \in Meshes |-> IF m = "meshA" THEN u ELSE None]
    /\ InitDom
    /\ InitLoaded

SpecResolve == InitResolve /\ [][NextSession]_vars

\* The same scenes, picked by events that carry no material index (a
\* right-click whose intersection has no face).
NextPickUnindexed ==
    \/ \E mesh \in Meshes : HandleContextMenu(mesh, 0)
    \/ HideContextMenu
    \/ OnInspect
    \/ HideModal

SpecResolveUnindexed == InitResolve /\ [][NextPickUnindexed]_vars

\* ----------------------------------------------------- DOM specification
\* Inline position / left values and parents a source can start with.
Layouts ==
    {Style(p, pos, l) : p \in {"body", "host", None}, pos \in {"", "absolute"},
                        l \in {"", "-9999px"}}

\* meshA: ghosted canvas c2 and registered canvas c1 (source d1); meshB:
\* the image element, or a manual override d2 on a slot without map.  The
\* captured source d1 (with d2) and the image start in any layout.
InitDomSpec ==
    /\ InitIdle
    /\ InitRegistry
    /\ ghost = {"c2"}
    /\ \E b \in {Mat("img", None), Mat(None, "d2")} :
          material = Scene(<<Mat("c2", None), Mat("c1", None)>>, <<b>>)
    /\ meshUserData = [m \in Meshes |-> None]
    /\ \E ld \in Layouts, li \in Layouts :
          dom = [n \in Nodes |->
                   IF n \in {"d1", "d2"} THEN ld
                   ELSE IF n = "img" THEN li
                   ELSE IF n \in GhostNodes THEN GhostNode
                   ELSE DetachedNode]
    /\ InitLoaded

SpecDom == InitDomSpec /\ [][NextSession]_vars

\* ------------------------------------------------ registry specification
\* Options the application passes to the wrapper (0: option not given).
WrapperOptions == {<<w, h, sc>> : w \in {0, 1}, h \in {0, 2}, sc \in {0, 1, 2}}

InitRegistrySpec ==
    /\ InitIdle
    /\ InitRegistry
    /\ ghost = {"c2"}
    /\ material = Scene(<<Mat("c2", None), Mat("c1", None)>>, <<Mat("c1", None)>>)
    /\ meshUserData = [m \in Meshes |-> None]
    /\ InitDom
    /\ InitLoaded

NextRegistry ==
    \/ \E e \in {"d1", "d2"}, opt \in WrapperOptions :
          Html2CanvasCall(e, opt[1], opt[2], opt[3])
    \/ \E call \in wrappers, canvas \in Canvases0 : Html2CanvasResolved(call, canvas)
    \/ \E call \in wrappers : Html2CanvasRejected(call)
    \/ \E mesh \in Meshes, idx \in 0..2 : HandleContextMenu(mesh, idx)
    \/ HideContextMenu

SpecRegistry == InitRegistrySpec /\ [][NextRegistry]_vars


\* ------------------------------------------------ transform specification
\* The application draws on the fresh canvas c2: save, restore, the four
\* transform methods, setTransform and fillText, in any order.
TransformCalls ==
    {Call("save", "c2", <<>>), Call("restore", "c2", <<>>),
     Call("translate", "c2", <<3, 1>>), Call("rotate", "c2", <<1>>),
     Call("scale", "c2", <<2, 3>>), Call("transform", "c2", <<1, 1, 0, 1, 2, 0>>),
     Call("setTransform", "c2", <<2, 0, 0, 2, 1, 1>>),
     Call("fillText", "c2", <<0, 1, 2>>)}

InitTransform ==
    /\ InitIdle
    /\ InitRegistry
    /\ ghost = {}
    /\ material = Scene(<<Mat("c2", None), Mat("c1", None)>>, <<Mat("c1", None)>>)
    /\ meshUserData = [m \in Meshes |-> None]
    /\ InitDom
    /\ InitLoaded

NextTransform == \E call \in TransformCalls : DrawCall(call)

SpecTransform == InitTransform /\ [][NextTransform]_vars


\* ---------------------------------------------------- ghost specification
\* The application draws on the fresh 128 x 128 canvas c2: rectangles that
\* are the full surface or its top-left quarter, texts, the registered
\* canvas c1 as an image, under a transform it may set to a scale by 2
\* (the usual set-up of a high-density canvas) or to a shift by 2.
GhostCalls ==
    {Call("fillRect", "c2", <<0, 0, 128, 128>>), Call("fillRect", "c2", <<0, 0, 64, 64>>),
     Call("clearRect", "c2", <<0, 0, 128, 128>>), Call("clearRect", "c2", <<0, 0, 64, 64>>),
     Call("strokeRect", "c2", <<1, 2, 8, 8>>), Call("fillText", "c2", <<0, 1, 2>>),
     Call("strokeText", "c2", <<0, 4, 4>>), Call("scale", "c2", <<2, 2>>),
     Call("setTransform", "c2", <<1, 0, 0, 1, 2, 0>>),
     DrawImageCall("c2", "c1", <<0, 0, 64, 64>>)}

\* c2 as createElement made it, or made non-extensible by the application.
InitGhost ==
    /\ InitIdle
    /\ InitRegistry
    /\ ghost = {}
    /\ material = Scene(<<Mat("c2", None), Mat("c1", None)>>, <<Mat("c1", None)>>)
    /\ meshUserData = [m \in Meshes |-> None]
    /\ InitDom
    /\ patched = TRUE
    /\ wraps = 1
    /\ config \in {DefaultConfig, [DefaultConfig EXCEPT !.frozen = {"c2"}]}
    /\ InitTracking

NextGhost == \E call \in GhostCalls : DrawCall(call)

SpecGhost == InitGhost /\ [][NextGhost]_vars


\* ------------------------------------------------ install specification
\* From before the first import of the library: the module body is
\* evaluated any number of times, the application draws on c2 and the user
\* right-clicks, in an application that passes either value of
\* enableCanvas2DPatch and is built in either mode.
InstallCalls ==
    {Call("fillText", "c2", <<0, 1, 2>>), Call("translate", "c2", <<3, 1>>),
     Call("save", "c2", <<>>)}

InitInstall ==
    /\ InitIdle
    /\ InitRegistry
    /\ ghost = {}
    /\ material = Scene(<<Mat("c2", None), Mat("c1", None)>>, <<Mat("c1", None)>>)
    /\ meshUserData = [m \in Meshes |-> None]
    /\ InitDom
    /\ patched = FALSE
    /\ wraps = 0
    /\ config \in [enableCanvas2DPatch : BOOLEAN, production : BOOLEAN, frozen : {{}}]
    /\ InitTracking

NextInstall ==
    \/ Install
    \/ \E call \in InstallCalls : DrawCall(call)
    \/ HandleContextMenu("meshA", 2)
    \/ OnInspect

SpecInstall == InitInstall /\ [][NextInstall]_vars


\* ---------------------------------------------- recapture specification
\* One scene, every slot but the first of meshA showing the registered
\* canvas c1: the user right-clicks and opens a session, which is left
\* open; the source is mutated and recaptures succeed or fail.
InitRecapture ==
    /\ InitIdle
    /\ InitRegistry
    /\ ghost = {}
    /\ material = Scene(<<Mat("bmp", None), Mat("c1", None)>>, <<Mat("c1", None)>>)
    /\ meshUserData = [m \in Meshes |-> None]
    /\ InitDom
    /\ InitLoaded

NextRecapture ==
    \/ \E mesh \in Meshes, idx \in 1..2 : HandleContextMenu(mesh, idx)
    \/ HideContextMenu
    \/ OnInspect
    \/ NextLiveSync

SpecRecapture == InitRecapture /\ [][NextRecapture]_vars


\* ---------------------------------------------- setTransform specification
\* The application calls setTransform on the fresh canvas c2 in each of its
\* forms: no argument, six numbers, a matrix, an object the platform
\* rejects ({a: 1, m11: 2}), undefined, a number; between them it shifts
\* the context and draws a text.
SetTransformCalls ==
    {Call("setTransform", "c2", <<>>),
     Call("setTransform", "c2", <<2, 0, 0, 2, 1, 1>>),
     SetTransformCall("c2", MatrixInit("matrix", [Identity EXCEPT !.e = 5, !.f = 7])),
     SetTransformCall("c2", MatrixInit("malformed", Identity)),
     SetTransformCall("c2", MatrixInit("undefined", Identity)),
     SetTransformCall("c2", MatrixInit("number", [Identity EXCEPT !.a = 5])),
     Call("translate", "c2", <<3, 1>>),
     Call("fillText", "c2", <<0, 1, 2>>)}

NextSetTransform == \E call \in SetTransformCalls : DrawCall(call)

SpecSetTransform == InitTransform /\ [][NextSetTransform]_vars



\* ------------------------------------------------ composition specification
\* The application composes images: onto the registered 128 x 100 canvas c1
\* it draws the 64 x 48 picture img, stretched to 85 rows (exactly 85
\* percent of c1), to 86 rows, or at its own size, and the canvas c2; onto
\* the fresh canvas c2 it paints a rectangle, draws img (which makes c2
\* unreadable) and draws a part of c1 over the whole surface.
DrawImageCalls ==
    {DrawImageCall("c1", "img", <<0, 0, 128, 85>>),
     DrawImageCall("c1", "img", <<0, 0, 128, 86>>),
     DrawImageCall("c1", "img", <<4, 4>>),
     DrawImageCall("c1", "c2", <<2, 2, 64, 50>>),
     DrawImageCall("c2", "c1", <<0, 0, 64, 48, 0, 0, 128, 128>>),
     DrawImageCall("c2", "img", <<8, 8, 64, 48>>),
     Call("fillRect", "c2", <<0, 0, 64, 64>>)}

\* c1 as createElement made it, or made non-extensible by the application.
InitDrawImage ==
    /\ InitIdle
    /\ InitRegistry
    /\ ghost = {}
    /\ material = Scene(<<Mat("c2", None), Mat("c1", None)>>, <<Mat("c1", None)>>)
    /\ meshUserData = [m \in Meshes |-> None]
    /\ InitDom
    /\ patched = TRUE
    /\ wraps = 1
    /\ config \in {DefaultConfig, [DefaultConfig EXCEPT !.frozen = {"c1"}]}
    /\ InitTracking

NextDrawImage == \E call \in DrawImageCalls : DrawCall(call)

SpecDrawImage == InitDrawImage /\ [][NextDrawImage]_vars


\* ---------------------------------------------- overlapping captures
\* Sessions whose captures all succeed: the element is mutated while
\* earlier captures are under way, and the captures complete in any order.
NextInFlight ==
    \/ \E mesh \in Meshes, idx \in 1..2 : HandleContextMenu(mesh, idx)
    \/ HideContextMenu
    \/ OnInspect
    \/ \E e \in Nodes : Mutate(e)
    \/ \E o \in observers : ObserverCallback(o)
    \/ \E c \in captures : CaptureResolved(c)
    \/ Render

SpecInFlight == InitRecapture /\ [][NextInFlight]_vars

\* ================================================================ properties
\* The node a session opened from captureInfo ci relocates, read after the
\* step (EffectContainer in the next state).
NextContainer(ci) ==
    LET info == IF ci.ref # 0 THEN heap'[ci.ref] ELSE ci
    IN IF info.ghostContainer # None THEN info.ghostContainer ELSE info.element

\* The manual overrides that apply to a pick of slot idx of mesh.
OverridesAt(mesh, idx) ==
    {meshUserData[mesh], material[mesh][idx].inspectableContainer} \ {None}

BoundTextures ==
    UNION {{material[m][i].map : i \in DOMAIN material[m]} : m \in Meshes} \ {None}
HasMappedSlot(mesh) == \E i \in DOMAIN material[mesh] : material[mesh][i].map # None

\* A slot of `mesh` got a texture that was bound nowhere before, other than
\* the one it held, and its material is marked for update.
GotNewTexture(mesh) ==
    \E i \in DOMAIN material[mesh] :
        /\ material'[mesh][i].map # None
        /\ material'[mesh][i].map # material[mesh][i].map
        /\ material'[mesh][i].map \notin BoundTextures
        /\ material'[mesh][i].needsUpdate

\* C2 as stated: in an open live-sync session (source neither raw nor a
\* ghost layer), every capture that succeeds leaves the associated mesh
\* (captureInfo.mesh) with a slot holding a new texture object and marked
\* dirty.
C2_Original ==
    [][\A c \in captures :
          (CaptureResolved(c) /\ c.ended = "no") => GotNewTexture(Deref(c.info).mesh)]_vars

\* C2 amended: the same, provided some material slot of the associated mesh
\* holds a texture when the capture completes.
C2_NewTextureOnMappedMesh ==
    [][\A c \in captures :
          (CaptureResolved(c) /\ c.ended = "no" /\ HasMappedSlot(Deref(c.info).mesh))
             => GotNewTexture(Deref(c.info).mesh)]_vars

\* C2 witness: a live-sync session is open and a slot of its mesh holds the
\* texture of one of its recaptures, marked dirty.
C2_Witness ==
    /\ modal.open /\ modal.liveSync
    /\ \E i \in DOMAIN material[modal.pickedMesh] :
          /\ material[modal.pickedMesh][i].map \in FreshCanvases
          /\ material[modal.pickedMesh][i].needsUpdate

\* C3: a capture whose session was closed before its result arrives is
\* discarded: no map and no dirty flag of any material changes.
C3_StaleCaptureDiscarded ==
    [][\A c \in captures : (CaptureResolved(c) /\ c.ended # "no") => material' = material]_vars

\* C7: on a multi-material mesh, a recapture of a session resolved from the
\* registry writes the new texture to the slot the source was resolved from
\* (the slot hit by the pick) and leaves every other slot's map unchanged.
C7_RecaptureHitsPickedSlot ==
    [][\A c \in captures :
          (/\ CaptureResolved(c)
           /\ c.ended = "no"
           /\ c.info.ref # 0
           /\ Deref(c.info).mesh = c.pickedMesh
           /\ Len(material[c.pickedMesh]) > 1)
          => /\ material'[c.pickedMesh][c.slot].map = FreshCanvas(c.id)
             /\ \A j \in DOMAIN material[c.pickedMesh] :
                   j # c.slot => material'[c.pickedMesh][j].map = material[c.pickedMesh][j].map]_vars

\* Nodes that sit in the inspection surface.
Relocated == {n \in Nodes : dom[n].parent = "content"}

\* C8 (state part): at most one session is open: at most one observer is
\* connected and at most one node is relocated, and they belong to the
\* mounted session; with no session there is neither.
C8_OneSessionState ==
    /\ Cardinality(observers) <= 1
    /\ Cardinality(Relocated) <= 1
    /\ modal.open => Relocated = {modal.container}
    /\ ~modal.open => Relocated = {} /\ observers = {}
    /\ \A o \in observers :
          modal.open /\ modal.liveSync /\ o.live /\ o.target = modal.container
                     /\ o.info = modal.captureInfo

\* C8 (step part): when a session replaces an open one, the prior session's
\* observer is gone and its node has left the inspection surface (unless the
\* new session relocates the same node).
C8_SwitchStep ==
    (modal.open /\ modal'.open /\ modal' # modal)
       => /\ \A o \in observers : o \notin observers' \/ NewObserver(modal') = o
          /\ modal'.container # modal.container => dom'[modal.container].parent # "content"

\* C8: in every reachable state at most one inspection session is open, and
\* opening a session while another is open closes the prior one first.
C8_OneSession == []C8_OneSessionState /\ [][C8_SwitchStep]_vars

\* C8 witness: a session is open that was opened while a live-sync session
\* with a capture in flight was open, on another node.
C8_Witness ==
    /\ modal.open
    /\ \E c \in captures : c.ended = "replaced" /\ c.container # modal.container

\* C4: closing a session whose source was attached to the document when
\* the session began puts the node back under the parent it had then.
C4_BackToOriginalParent ==
    [][(modal.open /\ ~modal'.open /\ modal.wasAttached)
          => dom'[modal.container].parent = modal.origParent]_vars

\* C5: closing a session whose source was attached to the document when
\* the session began leaves the node's inline position and left as they
\* were just before the session opened, the empty string included.
C5_InlineStyleRestored ==
    [][(modal.open /\ ~modal'.open /\ modal.wasAttached)
          => /\ dom'[modal.container].position = modal.origPosition
             /\ dom'[modal.container].left = modal.origLeft]_vars

\* C6: closing a session whose source was not attached to the document
\* when the session began leaves the node outside the document.
C6_DetachedStaysOut ==
    [][(modal.open /\ ~modal'.open /\ ~modal.wasAttached)
          => ~IsConnected(dom', modal.container)]_vars

\* C9: once a session is closed, no mutation of its source element starts a
\* capture for it: every capture is started by the observer of the session
\* that is open at that moment, and closing a session leaves no observer
\* (and no undelivered record) behind.
C9_NoCaptureAfterClose ==
    [][/\ \A c \in captures' :
            c.id > ncap => c.ended = "no" /\ modal.open /\ c.container = modal.container
       /\ (modal.open /\ modal' # modal) => \A o \in observers' : o.live /\ ~o.pending]_vars

\* C9 witness: a live-sync session was closed while one of its captures was
\* in flight, and no session is open.
C9_Witness == ~modal.open /\ \E c \in captures : c.ended # "no"

\* Registered canvases.
Registered == {c \in Canvases : registry[c] # 0}

\* C10 (step part): when the wrapper finishes a call, the canvas it
\* returned is registered with the call's element and with the width,
\* height and scale the options gave, under a record of its own; no other
\* canvas's entry changes, and no step alters what a record says.
C10_RegisterStep ==
    /\ \A call \in wrappers, canvas \in Canvases0 :
          Html2CanvasResolved(call, canvas)
          => LET r == heap'[registry'[canvas]] IN
             /\ registry'[canvas] \notin {registry[c] : c \in Canvases}
             /\ r.element = call.element
             /\ call.width # 0 => r.width = call.width
             /\ call.height # 0 => r.height = call.height
             /\ call.scale # 0 => r.scale = call.scale
             /\ \A c \in Canvases \ {canvas} : registry'[c] = registry[c]
    /\ \A i \in DOMAIN heap :
          /\ heap'[i].element = heap[i].element
          /\ heap'[i].width = heap[i].width
          /\ heap'[i].height = heap[i].height
          /\ heap'[i].scale = heap[i].scale
    /\ (registry' # registry)
          => \E call \in wrappers, canvas \in Canvases0 : Html2CanvasResolved(call, canvas)

\* C10 (state part): the resolver's lookup of a registered canvas returns
\* the canvas's one record.
C10_LookupState ==
    \A c \in Registered :
        /\ registry[c] \in DOMAIN heap
        /\ Pass1("meshB", <<Mat(c, None)>>, 1) = RefTo(registry[c])
        /\ Deref(Pass1("meshB", <<Mat(c, None)>>, 1)) = heap[registry[c]]

\* C10: a canvas returned by the wrapper is looked up to the element and
\* the width, height and scale of the call that returned it; a later call
\* that returns the same canvas replaces its record.
C10_RegistryRoundTrip == []C10_LookupState /\ [][C10_RegisterStep]_vars

\* C10 witness: c1, registered for d1 at 1 x 1, scale 2, was returned
\* again by a call on d2 with width 1, height 2, scale 1, and a pick has
\* looked the new record up.
C10_Witness ==
    /\ registry["c1"] = 2
    /\ heap[2].element = "d2" /\ heap[2].width = 1 /\ heap[2].height = 2
    /\ heap[2].scale = 1
    /\ menu.shown /\ menu.captureInfo = RefTo(2)

\* ------------------------------------------------------ drawing API
\* A step that is a call of the drawing API, and the entry it logged.
Called == Len(log') = Len(log) + 1
LastCall == log'[Len(log')]

\* Saves minus restores among the first k calls on canvas c.
RECURSIVE Balance(_, _)
Balance(k, c) ==
    IF k = 0 THEN 0
    ELSE Balance(k - 1, c)
         + (IF log[k].call.canvas = c /\ log[k].call.op = "save" THEN 1
            ELSE IF log[k].call.canvas = c /\ log[k].call.op = "restore" THEN 0 - 1
            ELSE 0)

\* No prefix of the calls on c has more restores than saves.
NeverOverRestored(c) == \A k \in 0..Len(log) : Balance(k, c) >= 0

\* C12: on every canvas, after N saves and M restores with no prefix
\* holding more restores than saves, the tracked stack holds N - M
\* entries, also when the first save is the first call on the canvas.
C12_DepthIsSavesMinusRestores ==
    \A c \in Canvases0 :
        NeverOverRestored(c) => Len(tracked[c].stack) = Balance(Len(log), c)

\* C13: a restore on a canvas whose tracked stack is empty leaves the
\* tracked matrix and stack as they are, throws nothing, and the browser's
\* restore still runs once.
C13_RestoreOnEmptyStack ==
    [][(/\ Called
        /\ LastCall.call.op = "restore"
        /\ Len(tracked[LastCall.call.canvas].stack) = 0)
       => /\ tracked' = tracked
          /\ LastCall.delegated = 1
          /\ ~LastCall.threw
          /\ escaped' = escaped
          /\ context'[LastCall.call.canvas] = Original(context[LastCall.call.canvas], LastCall.call)]_vars

\* C13 witness: c2 was translated, then restored with nothing saved: its
\* tracked matrix is still the translation and its stack is empty.
C13_Witness ==
    /\ Len(log) = 2
    /\ log[1].call.op = "translate" /\ log[2].call.op = "restore"
    /\ log[2].delegated = 1
    /\ tracked["c2"] = [has |-> TRUE, matrix |-> TranslateSelf(Identity, 3, 1),
                        stack |-> <<>>]

\* The product, in call order, of the matrices of the first k calls on c
\* (calls that are no transform count as the identity).
RECURSIVE DirectProduct(_, _)
DirectProduct(k, c) ==
    IF k = 0 THEN Identity
    ELSE IF log[k].call.canvas = c
            /\ log[k].call.op \in {"translate", "rotate", "scale", "transform"}
    THEN MatMul(DirectProduct(k - 1, c), OpMatrix(log[k].call))
    ELSE DirectProduct(k - 1, c)

\* Only transform methods and text have been called so far.
OnlyTransformsSoFar ==
    \A k \in 1..Len(log) :
        log[k].call.op \in {"translate", "rotate", "scale", "transform", "fillText"}

\* C14: after any sequence of translate, rotate, scale and transform, the
\* ghost element recorded for a text drawn at (x, y) gets as left / top the
\* point (x, y) taken through the product of the calls' matrices, composed
\* in call order from the identity.
C14_GhostAtProjectedPoint ==
    [][(Called /\ OnlyTransformsSoFar /\ LastCall.call.op = "fillText")
       => LET c == LastCall.call.canvas
              kid == layer'[c][Len(layer'[c])]
              pt == ProjectPoint(DirectProduct(Len(log), c),
                                 LastCall.call.args[2], LastCall.call.args[3])
          IN /\ Len(layer'[c]) = Len(layer[c]) + 1
             /\ kid.left = pt.x
             /\ kid.top = pt.y]_vars

\* C14 witness: a text was recorded after a translate, a rotate and a scale,
\* away from the point it was drawn at.
C14_Witness ==
    /\ Len(log) = 4
    /\ OnlyTransformsSoFar
    /\ {log[k].call.op : k \in 1..3} = {"translate", "rotate", "scale"}
    /\ log[4].call.op = "fillText"
    /\ Len(layer["c2"]) = 1
    /\ layer["c2"][1].left # 1

\* The rectangle (x, y, w, h), taken through the context's transform m
\* (no rotation, no skew), contains the whole c-sized surface.
CoversSurface(m, call) ==
    LET x1 == m.a * call.args[1] + m.e
        x2 == m.a * (call.args[1] + call.args[3]) + m.e
        y1 == m.d * call.args[2] + m.f
        y2 == m.d * (call.args[2] + call.args[4]) + m.f
    IN /\ m.b = 0 /\ m.c = 0
       /\ (IF x1 < x2 THEN x1 ELSE x2) <= 0
       /\ (IF x1 < x2 THEN x2 ELSE x1) >= BitmapWidth(call.canvas)
       /\ (IF y1 < y2 THEN y1 ELSE y2) <= 0
       /\ (IF y1 < y2 THEN y2 ELSE y1) >= BitmapHeight(call.canvas)

\* C11: a fillRect or clearRect whose rectangle covers the whole surface
\* removes every ghost element recorded on it before (a fillRect leaves its
\* own placeholder, a clearRect nothing); one whose rectangle does not
\* cover the whole surface removes none.
C11_FullRectFlushes ==
    [][(Called /\ LastCall.call.op \in {"fillRect", "clearRect"} /\ ~LastCall.threw)
       => LET c == LastCall.call.canvas IN
          IF CoversSurface(context[c].ctm, LastCall.call)
          THEN Len(layer'[c]) = (IF LastCall.call.op = "fillRect" THEN 1 ELSE 0)
          ELSE /\ Len(layer'[c]) >= Len(layer[c])
               /\ SubSeq(layer'[c], 1, Len(layer[c])) = layer[c]]_vars

\* C15: every call of a patched drawing method runs the browser's method
\* exactly once, with the caller's arguments and after the bookkeeping,
\* also when the bookkeeping fails: no call ends with the bookkeeping's
\* exception, and the context is what the browser's method leaves.
C15_OriginalAlwaysRuns ==
    [][(Called /\ LastCall.call.op # "install")
       => /\ LastCall.delegated = 1
          /\ ~LastCall.threw
          /\ context'[LastCall.call.canvas]
                = Original(context[LastCall.call.canvas], LastCall.call)]_vars

\* Evaluations of the module body among the calls so far.
Installs == Cardinality({k \in 1..Len(log) : log[k].call.op = "install"})

\* C16: after one or more evaluations of the module body, each drawing
\* method is wrapped exactly once: a text call records one ghost element and
\* runs the browser's method once, and a translate moves the tracked matrix
\* once.
C16_InstalledOnce ==
    /\ [](Installs >= 1 => wraps = 1)
    /\ [][(Called /\ Installs >= 1)
          => LET c == LastCall.call.canvas IN
             /\ LastCall.call.op = "fillText"
                => /\ Len(layer'[c]) = Len(layer[c]) + 1
                   /\ LastCall.delegated = 1
             /\ LastCall.call.op = "translate"
                => /\ tracked'[c].matrix
                        = TranslateSelf(IF tracked[c].has THEN tracked[c].matrix ELSE Identity,
                                        LastCall.call.args[1], LastCall.call.args[2])
                   /\ LastCall.delegated = 1]_vars

\* C16 witness: the module body was evaluated three times, then one text
\* was drawn: one ghost element, one run of the browser's method.
C16_Witness ==
    /\ Len(log) = 4
    /\ \A k \in 1..3 : log[k].call.op = "install"
    /\ log[4].call.op = "fillText" /\ log[4].delegated = 1
    /\ Len(layer["c2"]) = 1

\* C19: in an application that passes enableCanvas2DPatch = false, no
\* drawing call creates a ghost layer, a ghost element or a tracked
\* transform (and a mesh whose texture the capture wrapper returned still
\* resolves to its record).
C19_PatchToggleOff ==
    ~config.enableCanvas2DPatch
       => /\ ghost = {}
          /\ \A c \in Canvases0 : layer[c] = <<>> /\ ~tracked[c].has
          /\ associateMeshWithCanvas("meshA", 2) = RefTo(registry["c1"])

\* C20: in a production build the library is disabled: the drawing methods
\* are not wrapped, and a right-click on a mesh opens neither the context
\* menu nor a session.
C20_DisabledInProduction ==
    config.production => wraps = 0 /\ ~menu.shown /\ ~modal.open

\* C17: when a recapture of the open session fails, the failure is caught
\* (nothing escapes to the application), no material's map or dirty flag
\* changes, and the session stays open with its observer connected, so
\* that the next mutation record starts a recapture as before.
C17_FailedRecaptureSkipped ==
    /\ [][\A c \in captures :
             (CaptureRejected(c) /\ c.ended = "no")
             => /\ material' = material
                /\ escaped' = escaped
                /\ modal.open /\ modal' = modal
                /\ observers' = observers
                /\ \E o \in observers' : o.live /\ o.target = modal.container]_vars
    /\ [][\A o \in observers :
             (ObserverCallback(o) /\ Deref(o.info).mesh # None)
             => \E c \in captures' \ captures :
                   c.id = ncap + 1 /\ c.ended = "no" /\ c.container = modal.container]_vars

\* C17 witness: the first recapture of the open session failed (no slot
\* holds a recaptured texture, none is marked), a later mutation started
\* the second one, which is in flight.
C17_Witness ==
    /\ modal.open /\ modal.liveSync
    /\ ncap = 2
    /\ \E c \in captures : captures = {c} /\ c.id = 2 /\ c.ended = "no"
    /\ material = Scene(<<Mat("bmp", None), Mat("c1", None)>>, <<Mat("c1", None)>>)
    /\ escaped = {}

\* C18 as stated: when the capture fails inside the wrapper, the failure
\* is caught and does not reach the caller, and the registry is unchanged.
C18_Original ==
    [][\A call \in wrappers :
          Html2CanvasRejected(call)
          => escaped' = escaped /\ registry' = registry /\ heap' = heap]_vars

\* C18 amended: when the capture fails inside the wrapper, the failure
\* reaches the caller as the rejection of the wrapper's promise, and the
\* registry is unchanged: no canvas gains, loses or changes a record.
C18_RejectionLeavesRegistry ==
    [][\A call \in wrappers :
          Html2CanvasRejected(call)
          => /\ escaped' = escaped \cup {[source |-> "html2canvas", id |-> call.id]}
             /\ escaped' # escaped
             /\ registry' = registry
             /\ heap' = heap]_vars

\* C18 witness: a call of the wrapper on d2 has failed; the caller got the
\* rejection, and the registry holds what it held: c1's record for d1.
C18_Witness ==
    /\ nwrap = 1 /\ wrappers = {}
    /\ escaped = {[source |-> "html2canvas", id |-> 1]}
    /\ registry = [c \in Canvases |-> IF c = "c1" THEN 1 ELSE 0]
    /\ Len(heap) = 1 /\ heap[1].element = "d1"

\* The slots whose map a step changes.
ChangedSlots ==
    {<<m, i>> \in Meshes \X (1..2) :
        i \in DOMAIN material[m] /\ material'[m][i].map # material[m][i].map}

\* C21: in a session on a captured source (resolved from the registry),
\* each observer callback starts exactly one capture, of the session's
\* container, with the width, height and scale of the registry record,
\* which no step alters; and each capture that completes yields exactly one
\* new texture: one slot gets a map that was bound nowhere before.
C21_OneRecapturePerBatch ==
    /\ [][\A o \in observers :
             (ObserverCallback(o) /\ o.info.ref # 0)
             => /\ ncap' = ncap + 1
                /\ \E c \in captures' \ captures :
                      /\ captures' = captures \cup {c}
                      /\ c.id = ncap' /\ c.container = o.target
                      /\ c.width = heap[o.info.ref].width
                      /\ c.height = heap[o.info.ref].height
                      /\ c.scale = heap[o.info.ref].scale]_vars
    /\ [][\A i \in DOMAIN heap :
             /\ heap'[i].width = heap[i].width
             /\ heap'[i].height = heap[i].height
             /\ heap'[i].scale = heap[i].scale]_vars
    /\ [][\A c \in captures :
             (CaptureResolved(c) /\ c.info.ref # 0)
             => /\ Cardinality(ChangedSlots) = 1
                /\ \A sl \in ChangedSlots :
                      /\ material'[sl[1]][sl[2]].map = FreshCanvas(c.id)
                      /\ FreshCanvas(c.id) \notin BoundTextures
                /\ captures' = captures \ {c}
                /\ ncap' = ncap]_vars

\* C21 witness: in the open session on d1 (registered at 1 x 1, scale 2)
\* one mutation batch was delivered: one capture was started and is done,
\* and exactly one slot holds its texture.
C21_Witness ==
    /\ modal.open /\ modal.liveSync /\ modal.captureInfo = RefTo(1)
    /\ ncap = 1 /\ captures = {}
    /\ \A o \in observers : ~o.pending
    /\ Cardinality({<<m, i>> \in Meshes \X (1..2) :
                      i \in DOMAIN material[m] /\ material[m][i].map = FreshCanvas(1)}) = 1

\* The matrix the library holds for canvas c (the identity ensureGhost
\* would start from, while it holds none).
TrackedMatrix(c) == IF tracked[c].has THEN tracked[c].matrix ELSE Identity

\* C22: after any sequence of save, restore, translate, rotate, scale,
\* transform and setTransform on a fresh canvas, a sequence that begins
\* with save included, the tracked matrix equals the transform of the real
\* context.
C22_TrackedEqualsReal ==
    \A c \in Canvases0 : TrackedMatrix(c) = context[c].ctm

\* The save that a restore made now, after the calls logged so far, pairs
\* with on canvas c: the last save since which saves and restores balance
\* (0 if there is none).
MatchingSave(c) ==
    LET n == Len(log)
        ks == {k \in 1..n :
                 /\ log[k].call.canvas = c /\ log[k].call.op = "save"
                 /\ Balance(n, c) = Balance(k, c)
                 /\ \A j \in k..n : Balance(j, c) >= Balance(k, c)}
    IN IF ks = {} THEN 0 ELSE CHOOSE k \in ks : \A j \in ks : j <= k

\* C23: a restore that pairs with a save leaves the tracked matrix as it
\* was when that save was called, whatever transforms and balanced save /
\* restore pairs came between.
C23_RestoreReturnsSavedMatrix ==
    [][(Called /\ LastCall.call.op = "restore" /\ MatchingSave(LastCall.call.canvas) # 0)
       => LET c == LastCall.call.canvas
              at == log[MatchingSave(c)].before
          IN /\ tracked'[c].has = at.has
             /\ tracked'[c].matrix = at.matrix]_vars

\* Methods that put a transform on the tracked matrix.
TransformOps == {"translate", "rotate", "scale", "transform"}

\* C24 (state part): a canvas has a ghost layer, a tracked matrix and a
\* tracked stack, or none of the three.
C24_AllOrNoneState == \A c \in Canvases0 : (c \in ghost) = tracked[c].has

\* C24 (step part): the first patched call on a canvas leaves it with a
\* ghost layer, an empty stack and the identity (with the call's own
\* transform on it); a call on a canvas that has them re-creates nothing:
\* the ghost stays, the stack changes only by save and restore, the matrix
\* only by the transform methods and restore.
C24_InitialisedOnceStep ==
    (Called /\ LastCall.call.op # "install" /\ ~LastCall.threw)
    => LET c == LastCall.call.canvas
           op == LastCall.call.op
       IN IF c \notin ghost
          THEN /\ c \in ghost' /\ tracked'[c].has
               /\ op \notin {"save"} => tracked'[c].stack = <<>>
               /\ op \notin TransformOps \cup {"setTransform"}
                     => tracked'[c].matrix = Identity
               /\ op \in TransformOps
                     => tracked'[c].matrix = TransformSelf(Identity, LastCall.call)
          ELSE /\ c \in ghost' /\ tracked'[c].has
               /\ op \notin {"save", "restore"} => tracked'[c].stack = tracked[c].stack
               /\ op \notin TransformOps \cup {"setTransform", "restore"}
                     => tracked'[c].matrix = tracked[c].matrix
               /\ op \notin {"fillRect", "clearRect"}
                     => SubSeq(layer'[c], 1, Len(layer[c])) = layer[c]

\* C24: the first patched drawing call that touches a canvas initialises
\* its tracked matrix to identity, its stack to empty and creates its one
\* ghost layer; a canvas always has all three or none; no later call
\* initialises again.
C24_LazyInitOnce == []C24_AllOrNoneState /\ [][C24_InitialisedOnceStep]_vars

\* C25: setTransform() sets the tracked matrix to the identity,
\* setTransform(matrix) to the matrix's components, setTransform(a, b, c,
\* d, e, f) to exactly these six; the matrix held before plays no part.
C25_SetTransformReplaces ==
    [][(Called /\ LastCall.call.op = "setTransform" /\ ~LastCall.threw)
       => LET call == LastCall.call
              now == tracked'[call.canvas]
          IN /\ now.has
             /\ (call.init.kind = "absent" /\ Len(call.args) = 0)
                   => now.matrix = Identity
             /\ call.init.kind = "matrix" => now.matrix = call.init.m
             /\ (call.init.kind = "absent" /\ Len(call.args) = 6)
                   => now.matrix = [a |-> call.args[1], b |-> call.args[2],
                                    c |-> call.args[3], d |-> call.args[4],
                                    e |-> call.args[5], f |-> call.args[6]]]_vars

\* C25 witness: c2 was shifted by (3, 1), then setTransform(2, 0, 0, 2, 1,
\* 1): the tracked matrix is the six numbers, the shift is gone.
C25_Witness ==
    /\ Len(log) = 2
    /\ log[1].call.op = "translate"
    /\ log[2].call.op = "setTransform" /\ Len(log[2].call.args) = 6
    /\ log[2].before.matrix = [Identity EXCEPT !.e = 3, !.f = 1]
    /\ tracked["c2"].matrix = [a |-> 2, b |-> 0, c |-> 0, d |-> 2, e |-> 1, f |-> 1]

\* C26: setTransform with a malformed argument (an object that is no valid
\* matrix, or a single argument that is no object) sets the tracked matrix
\* to the identity, and the wrapper's own work throws nothing (what the
\* browser's setTransform makes of the argument is the browser's).
C26_MalformedFallsBackToIdentity ==
    [][(/\ Called
        /\ LastCall.call.op = "setTransform"
        /\ LastCall.call.init.kind \in {"malformed", "undefined", "number"})
       => /\ tracked'[LastCall.call.canvas].has
          /\ tracked'[LastCall.call.canvas].matrix = Identity
          /\ ~LastCall.threw]_vars

\* -------------------------------------------------------- resolver
\* The slots a pick of slot idx of mesh makes candidates (idx = 0: the
\* event names no slot), and the textures they hold.
Candidates(mesh, idx) ==
    IF idx \in DOMAIN material[mesh] THEN {idx} ELSE DOMAIN material[mesh]
CandidateMaps(mesh, idx) ==
    {material[mesh][i].map : i \in Candidates(mesh, idx)} \ {None}

\* The mesh carries no manual override, on itself or on a material.
NoOverride(mesh) ==
    /\ meshUserData[mesh] = None
    /\ \A i \in DOMAIN material[mesh] : material[mesh][i].inspectableContainer = None

\* The bitmap is a canvas with a registry record or a ghost layer.
IsTracked(b) == IsCanvas(b) /\ (registry[b] # 0 \/ b \in ghost)

\* C27: for a mesh without manual override, the resolver returns a
\* candidate's registry record or, for a candidate canvas that has no
\* record, its ghost layer (never the ghost layer of a registered canvas);
\* it returns a raw source only when no candidate holds a registered or
\* ghosted canvas; and nothing exactly when no candidate's texture is a
\* DOM element.
C27_RegistryThenGhostThenRaw ==
    \A mesh \in Meshes, idx \in 0..2 :
        NoOverride(mesh)
        => LET r == associateMeshWithCanvas(mesh, idx)
               maps == CandidateMaps(mesh, idx)
           IN /\ r.ref # 0 => \E b \in maps : IsCanvas(b) /\ registry[b] = r.ref
              /\ r.ghostContainer # None
                    => /\ r.ref = 0
                       /\ r.textureSourceCanvas \in maps
                       /\ r.textureSourceCanvas \in ghost
                       /\ registry[r.textureSourceCanvas] = 0
                       /\ r.ghostContainer = GhostOf(r.textureSourceCanvas)
              /\ r.isRawSource
                    => /\ r.ref = 0
                       /\ r.element \in maps
                       /\ \A b \in maps : ~IsTracked(b)
              /\ (\E b \in maps : IsTracked(b))
                    => r.ref # 0 \/ r.ghostContainer # None
              /\ (r = NoInfo) = (\A b \in maps : ~IsHTMLElement(b))

\* C27 witness: a pick on a mesh without override was resolved to the
\* registry record of c1 although c1 owns a ghost layer as well.
C27_Witness ==
    /\ menu.shown /\ menu.captureInfo = RefTo(1)
    /\ NoOverride(menu.pickedMesh)
    /\ "c1" \in ghost /\ registry["c1"] = 1
    /\ material[menu.pickedMesh][menu.slot].map = "c1"

\* What the resolver makes of slot i alone, in pass 1 and in either pass.
SoloPass1(mesh, i) == Pass1(mesh, <<material[mesh][i]>>, 1)
SoloAnswer(mesh, i) ==
    IF SoloPass1(mesh, i) # NoInfo THEN SoloPass1(mesh, i)
    ELSE Pass2(mesh, <<material[mesh][i]>>, 1)

\* The lowest slot in a non-empty set of slots.
Lowest(slots) == CHOOSE i \in slots : \A j \in slots : i <= j

\* C28 (indexed part): a pick that names an existing slot is resolved from
\* that slot alone.
C28_IndexedPick ==
    \A mesh \in Meshes, idx \in 1..2 :
        idx \in DOMAIN material[mesh]
        => associateMeshWithCanvas(mesh, idx) = SoloAnswer(mesh, idx)

\* C28 as stated: ..., and a pick that names no slot is resolved from the
\* lowest-indexed slot that is resolvable.
C28_Original ==
    [][\A mesh \in Meshes :
          HandleContextMenu(mesh, 0)
          => LET ok == {i \in DOMAIN material[mesh] : SoloAnswer(mesh, i) # NoInfo}
             IN /\ C28_IndexedPick
                /\ associateMeshWithCanvas(mesh, 0)
                     = IF ok = {} THEN NoInfo ELSE SoloAnswer(mesh, Lowest(ok))]_vars

\* C28 amended: ..., and a pick that names no slot is resolved from the
\* lowest-indexed slot that carries an override, a registered canvas or a
\* ghosted canvas; only when no slot does, from the lowest-indexed slot
\* whose texture is a DOM element.
C28_SlotOrderPerPass ==
    /\ C28_IndexedPick
    /\ \A mesh \in Meshes :
          LET p1 == {i \in DOMAIN material[mesh] : SoloPass1(mesh, i) # NoInfo}
              ok == {i \in DOMAIN material[mesh] : SoloAnswer(mesh, i) # NoInfo}
          IN associateMeshWithCanvas(mesh, 0)
               = IF p1 # {} THEN SoloPass1(mesh, Lowest(p1))
                 ELSE IF ok # {} THEN SoloAnswer(mesh, Lowest(ok))
                 ELSE NoInfo

\* C28 witness: a pick without slot on meshA, whose first slot shows the
\* image element and whose second the registered canvas c1, was resolved
\* to the record of c1.
C28_Witness ==
    /\ menu.shown /\ menu.pickedMesh = "meshA" /\ menu.captureInfo = RefTo(1)
    /\ material["meshA"][1] = Mat("img", None)
    /\ material["meshA"][2] = Mat("c1", None)

\* C29: a resolution that returns a registry record leaves the record's
\* mesh reference at the resolved mesh, whatever it was, and no other
\* record's; nothing but a resolution changes a record's mesh reference.
C29_MeshLastWriterWins ==
    /\ [][\A mesh \in Meshes, idx \in 0..2 :
             (HandleContextMenu(mesh, idx) /\ ResolveForMenu(mesh, idx).ref # 0)
             => /\ heap'[ResolveForMenu(mesh, idx).ref].mesh = mesh
                /\ \A i \in DOMAIN heap \ {ResolveForMenu(mesh, idx).ref} :
                      heap'[i].mesh = heap[i].mesh]_vars
    /\ [][(\E i \in DOMAIN heap : heap'[i].mesh # heap[i].mesh)
          => \E mesh \in Meshes, idx \in 0..2 : HandleContextMenu(mesh, idx)]_vars

\* C29 witness: the record of c1 was resolved for meshA (a session was
\* opened from that pick) and then for meshB: it names meshB.
C29_Witness ==
    /\ modal.open /\ modal.captureInfo = RefTo(1) /\ modal.pickedMesh = "meshA"
    /\ menu.shown /\ menu.captureInfo = RefTo(1) /\ menu.pickedMesh = "meshB"
    /\ heap[1].mesh = "meshB"

\* The open session's source is a raw source or a ghost layer.
RawOrGhostSession ==
    /\ modal.open
    /\ \/ Deref(modal.captureInfo).isRawSource
       \/ Deref(modal.captureInfo).ghostContainer # None

\* C30: while a session on a raw source or a ghost layer is open, no
\* capture is started and no material's map changes.
C30_NoRecaptureInRawSession ==
    [][(RawOrGhostSession /\ modal' = modal)
       => /\ ncap' = ncap
          /\ captures' \subseteq captures
          /\ \A m \in Meshes : \A i \in DOMAIN material[m] :
                material'[m][i].map = material[m][i].map]_vars


\* ------------------------------------------------------------------ C31
\* The share of the destination surface that the destination rectangle of
\* a drawImage call takes, against 85 percent: 1 above, 0 at, -1 below.
AgainstThreshold(call) ==
    LET r == DestRect(call)
        img == r.dw * r.dh * 100
        limit == BitmapWidth(call.canvas) * BitmapHeight(call.canvas) * 85
    IN IF img > limit THEN 1 ELSE IF img = limit THEN 0 ELSE 0 - 1

\* The canvas of the call has a ghost layer or can be given one.
CanHaveGhost(call) == call.canvas \in ghost \/ call.canvas \notin config.frozen

\* The call appended one image placeholder with the given interactivity.
RecordsImage(call, interactive) ==
    LET c == call.canvas IN
    /\ Len(layer'[c]) = Len(layer[c]) + 1
    /\ layer'[c][Len(layer'[c])].type = "image"
    /\ layer'[c][Len(layer'[c])].interactive = interactive

\* C31 as stated: a drawImage whose destination rectangle is at least 85
\* percent of the surface (exactly 85 percent included) records a
\* non-interactive placeholder, a smaller one an interactive placeholder.
C31_Original ==
    [][(Called /\ LastCall.call.op = "drawImage" /\ CanHaveGhost(LastCall.call))
       => RecordsImage(LastCall.call, AgainstThreshold(LastCall.call) < 0)]_vars

\* C31: on a surface that has or can take a ghost layer, a drawImage whose
\* destination rectangle is more than 85 percent of the surface's area
\* records a non-interactive placeholder; one of 85 percent or less,
\* exactly 85 percent included, records an interactive placeholder.
C31_OverlayAbove85 ==
    [][(Called /\ LastCall.call.op = "drawImage" /\ CanHaveGhost(LastCall.call))
       => RecordsImage(LastCall.call, AgainstThreshold(LastCall.call) <= 0)]_vars

\* C31 witness: the picture drawn over exactly 85 percent of c1 was
\* recorded as interactive, after one over 86 rows was recorded as not.
C31_Witness ==
    /\ Len(log) >= 2
    /\ log[Len(log)].call = DrawImageCall("c1", "img", <<0, 0, 128, 85>>)
    /\ log[Len(log) - 1].call = DrawImageCall("c1", "img", <<0, 0, 128, 86>>)
    /\ Len(layer["c1"]) >= 2
    /\ layer["c1"][Len(layer["c1"])] =
          [type |-> "image", left |-> 0, top |-> 0, interactive |-> TRUE]
    /\ layer["c1"][Len(layer["c1"]) - 1] =
          [type |-> "image", left |-> 0, top |-> 0, interactive |-> FALSE]


\* ------------------------------------------------------------------ C32
\* The last call drew a canvas that has a provenance record.
DrewTrackedSource ==
    /\ Called
    /\ LastCall.call.op = "drawImage"
    /\ IsCanvas(LastCall.call.image)
    /\ registry[LastCall.call.image] # 0

\* The destination's record is the one object it was, with the same fields.
KeepsRecord(c) ==
    /\ registry'[c] = registry[c]
    /\ heap'[registry'[c]] = heap[registry[c]]

\* The destination got a record of its own with the source's element and
\* capture parameters and, as backdrop, its pixels from before the call.
InheritsRecord(c, src) ==
    /\ registry'[c] # 0
    /\ registry'[c] # registry[src]
    /\ LET rec == heap'[registry'[c]]
           from == heap[registry[src]]
       IN /\ rec.element = from.element
          /\ rec.width = from.width
          /\ rec.height = from.height
          /\ rec.scale = from.scale
          /\ rec.backdrop.has
          /\ rec.backdrop.pixels = Painted(c, Len(log))
    /\ heap'[registry[src]] = heap[registry[src]]

\* C32 as stated: a recorded surface drawn onto a surface without a record
\* gives the destination a record with the source's element and capture
\* parameters and the destination's earlier pixels as backdrop; a
\* destination that has a record keeps it unchanged.
C32_Original ==
    [][DrewTrackedSource
       => IF registry[LastCall.call.canvas] # 0
          THEN KeepsRecord(LastCall.call.canvas)
          ELSE InheritsRecord(LastCall.call.canvas, LastCall.call.image)]_vars

\* C32: a recorded surface drawn onto a surface without a record gives the
\* destination a record with the source's element and capture parameters
\* and the destination's pixels from before the draw as backdrop, when
\* those pixels can be read; a destination whose pixels cannot be read (it
\* is not origin-clean) stays without a record, and a destination that has
\* a record keeps it unchanged.  The image is drawn in every case.
C32_InheritsWithBackdrop ==
    [][DrewTrackedSource
       => /\ LastCall.delegated = 1
          /\ IF registry[LastCall.call.canvas] # 0
             THEN KeepsRecord(LastCall.call.canvas)
             ELSE IF Tainted(LastCall.call.canvas, Len(log))
             THEN registry'[LastCall.call.canvas] = 0 /\ heap' = heap
             ELSE InheritsRecord(LastCall.call.canvas, LastCall.call.image)]_vars

\* C32 witness: c2 was painted, then c1 was drawn onto it and c2 got d1's
\* record with the painted rectangle as backdrop; c2 drawn back onto c1
\* left c1's record alone.
C32_Witness ==
    /\ Len(log) = 3
    /\ log[1].call = Call("fillRect", "c2", <<0, 0, 64, 64>>)
    /\ log[2].call = DrawImageCall("c2", "c1", <<0, 0, 64, 48, 0, 0, 128, 128>>)
    /\ log[3].call = DrawImageCall("c1", "c2", <<2, 2, 64, 50>>)
    /\ registry["c1"] = 1
    /\ registry["c2"] = 2
    /\ heap[2].element = "d1"
    /\ heap[2].backdrop = [has |-> TRUE, pixels |-> <<log[1].call>>]
    /\ heap[1].backdrop = NoBackdrop


\* ------------------------------------------------------------------ C33
\* C33: the result of every completed capture is written to the target
\* material when it completes, whatever is in flight and whatever the
\* material shows: the map holds the result of the capture that completed
\* last, also when that capture was started before one whose result it
\* overwrites.
C33_LastCompletedWins ==
    [][\A c \in captures :
          captures' = captures \ {c}
          => LET mesh == Deref(c.info).mesh
                 t == FindTargetMaterial(material[mesh], 1)
             IN /\ t # 0
                /\ material'[mesh][t].map = FreshCanvas(c.id)
                /\ material'[mesh][t].needsUpdate]_vars

\* C33 witness: both captures of the session have completed and the
\* material shows the result of the first one: the second capture, started
\* after a later mutation, completed before it.
C33_Witness ==
    /\ modal.open
    /\ Cardinality(observers) = 1
    /\ \A o \in observers : o.live
    /\ ncap = 2
    /\ captures = {}
    /\ material["meshA"][1].map = FreshCanvas(1)
    /\ \A m \in Meshes : \A i \in DOMAIN material[m] : material[m][i].map # FreshCanvas(2)


\* ------------------------------------------------------------------ C34
\* C34: a pick made when no session is open and no capture is pending, on
\* a single-material mesh whose texture a recapture has written, resolves
\* to the registry's record of the element that was captured (d1), as a
\* captured source and not as a raw source.
C34_ProvenanceSurvivesRecapture ==
    [][(/\ menu'.shown
        /\ menu' # menu
        /\ ~modal.open
        /\ captures = {}
        /\ Len(material[menu'.pickedMesh]) = 1
        /\ material[menu'.pickedMesh][menu'.slot].map \in FreshCanvases)
       => /\ menu'.captureInfo.ref # 0
          /\ heap'[menu'.captureInfo.ref].element = "d1"
          /\ ~heap'[menu'.captureInfo.ref].isRawSource]_vars


\* ------------------------------------------------------------------ C35
\* C35: a capture of an open session that completes changes a texture of
\* the mesh that was picked when its session was opened, and of no other
\* mesh.
C35_RecaptureHitsPickedMesh ==
    [][\A c \in captures :
          (CaptureResolved(c) /\ c.ended = "no")
          => /\ ChangedSlots # {}
             /\ \A sl \in ChangedSlots : sl[1] = c.pickedMesh]_vars


\* ------------------------------------------------------------------ C36
\* C36: closing a session, whatever kind its source is, leaves the inline
\* position, left, transform and z-index of the relocated node as they
\* were just before the session opened; a ghost layer is absolutely
\* positioned again.
C36_AttachStylesRestored ==
    [][(modal.open /\ ~modal'.open)
          => /\ dom'[modal.container].position = modal.origPosition
             /\ dom'[modal.container].left = modal.origLeft
             /\ dom'[modal.container].transform = modal.origTransform
             /\ dom'[modal.container].zIndex = modal.origZIndex
             /\ modal.container \in GhostNodes
                   => dom'[modal.container].position = "absolute"]_vars
====
